---- MODULE Spec2Model ----
(***************************************************************************)
(* Model of the MaiBot plugin template: configuration-driven component     *)
(* registration (plugin.py), the configuration command                     *)
(* (components/commands/config_command.py), the command patterns and the   *)
(* execute methods of the actions and commands (components/), and the      *)
(* manifest validator (scripts/validate_manifest.py).                      *)
(*                                                                         *)
(* Python strings are modelled as sequences of one-character strings, so   *)
(* that lower(), int(), float(), split() and the regular expressions are   *)
(* computed character by character.  Optional[str] is modelled as a        *)
(* sequence of length 0 (None) or 1 (the string).                          *)
(***************************************************************************)
EXTENDS Integers, Sequences, FiniteSets, TLC

VARIABLES
    config,      \* the configuration tree read through get_config
    components,  \* what the last get_plugin_components call returned
    user_id,     \* ConfigCommand.user_id
    result,      \* outcome of the last ConfigCommand.execute call
    sent,        \* texts passed to send_text during that call (their kinds)
    stages,      \* steps of the handler that were performed during that call
    conv,        \* argument and outcome of a _convert_config_value call
    origin,      \* the stored value whose str() is given back to the conversion
    text,        \* the message text the command patterns are applied to
    help_match,  \* re.match(HelpCommand.command_pattern, text)
    config_match, \* re.match(ConfigCommand.command_pattern, text)
    instance,    \* the component instance execute is called on, with its attributes
    now,         \* time.time()
    reply,       \* the response text SmartResponseAction.execute passed to send_text
    last_call,   \* the cache key and the length limit of that call
    stored_at,   \* for each cached key, the time its response was put in the cache
    manifest_file, \* _manifest.json as the validator finds it
    validator,   \* the ManifestValidator: errors, warnings and what validate did
    exit_code    \* the exit status of scripts/validate_manifest.py

\* the variables of the pattern matching
patternVars == <<text, help_match, config_match>>

\* the variables of the areas other than the configuration command
\* the variables of the manifest validator
manifestVars == <<manifest_file, validator, exit_code>>

\* what is recorded about the calls of SmartResponseAction.execute
historyVars == <<reply, last_call, stored_at>>

extraVars == <<origin, patternVars, instance, now, historyVars, manifestVars>>

vars == <<config, components, user_id, result, sent, stages, conv, extraVars>>

---------------------------------------------------------------------------
(* Bounds of the model *)

\* longest string of the small alphabet given to _convert_config_value
MaxStrLen == 3

---------------------------------------------------------------------------
(* Characters and strings *)

UpperChars == <<"A", "B", "C", "D", "E", "F", "G", "H", "I", "J", "K", "L", "M", "N", "O", "P", "Q", "R", "S", "T", "U", "V", "W", "X", "Y", "Z">>
LowerChars == <<"a", "b", "c", "d", "e", "f", "g", "h", "i", "j", "k", "l", "m", "n", "o", "p", "q", "r", "s", "t", "u", "v", "w", "x", "y", "z">>
DigitChars == <<"0", "1", "2", "3", "4", "5", "6", "7", "8", "9">>

Range(s) == {s[i] : i \in 1..Len(s)}

IndexOf(c, s) == CHOOSE i \in 1..Len(s) : s[i] = c

\* str.lower() on one character (ASCII letters)
LowerChar(c) == IF c \in Range(UpperChars) THEN LowerChars[IndexOf(c, UpperChars)] ELSE c

\* str.lower()
StrLower(s) == [i \in 1..Len(s) |-> LowerChar(s[i])]

DigitSet == Range(DigitChars)
LetterSet == Range(UpperChars) \cup Range(LowerChars)

IsDigit(c) == c \in DigitSet
IsAlpha(c) == c \in LetterSet
IsSpace(c) == c \in {" ", "\t", "\n"}

DigitVal(c) == IndexOf(c, DigitChars) - 1

RECURSIVE DigitsValue(_)
DigitsValue(s) ==
    IF Len(s) = 0 THEN 0
    ELSE 10 * DigitsValue(SubSeq(s, 1, Len(s) - 1)) + DigitVal(s[Len(s)])

RECURSIVE Pow10(_)
Pow10(k) == IF k = 0 THEN 1 ELSE 10 * Pow10(k - 1)

\* str.strip(): leading and trailing whitespace removed
RECURSIVE LStrip(_)
LStrip(s) == IF Len(s) > 0 /\ IsSpace(s[1]) THEN LStrip(Tail(s)) ELSE s

RECURSIVE RStrip(_)
RStrip(s) ==
    IF Len(s) > 0 /\ IsSpace(s[Len(s)]) THEN RStrip(SubSeq(s, 1, Len(s) - 1)) ELSE s

Strip(s) == RStrip(LStrip(s))

\* item.strip('"\''): leading and trailing quote characters removed
RECURSIVE LStripQuotes(_)
LStripQuotes(s) ==
    IF Len(s) > 0 /\ s[1] \in {"\"", "'"} THEN LStripQuotes(Tail(s)) ELSE s

RECURSIVE RStripQuotes(_)
RStripQuotes(s) ==
    IF Len(s) > 0 /\ s[Len(s)] \in {"\"", "'"}
    THEN RStripQuotes(SubSeq(s, 1, Len(s) - 1))
    ELSE s

StripQuotes(s) == RStripQuotes(LStripQuotes(s))

\* str.split(sep) for a one-character separator
RECURSIVE SplitOn(_, _)
SplitOn(s, sep) ==
    IF \A i \in 1..Len(s) : s[i] # sep THEN <<s>>
    ELSE LET i == CHOOSE j \in 1..Len(s) :
                      s[j] = sep /\ \A k \in 1..(j - 1) : s[k] # sep
         IN  <<SubSeq(s, 1, i - 1)>> \o SplitOn(SubSeq(s, i + 1, Len(s)), sep)

---------------------------------------------------------------------------
(* Python values: a record tagged with type(value).__name__ *)

PyNone == [t |-> "NoneType"]
PyBool(b) == [t |-> "bool", v |-> b]
PyInt(n) == [t |-> "int", v |-> n]
PyStr(s) == [t |-> "str", v |-> s]
PyList(l) == [t |-> "list", v |-> l]
\* a dict with string keys, as a function from the keys to the values
PyDict(d) == [t |-> "dict", v |-> d]

\* a finite float num / 10^exp, kept in lowest terms of the power of ten
RECURSIVE PyFloat(_, _)
PyFloat(num, exp) ==
    IF exp > 0 /\ num % 10 = 0 THEN PyFloat(num \div 10, exp - 1)
    ELSE [t |-> "float", kind |-> "finite", num |-> num, exp |-> exp]

\* float("nan"), float("inf"), float("-inf")
PyFloatSpecial(kind) == [t |-> "float", kind |-> kind, num |-> 0, exp |-> 0]

\* Optional[str]
NoStr == <<>>
Some(s) == <<s>>

\* the truth value of a Python object, as `if x` and `not x` read it
Truthy(x) ==
    CASE x.t = "NoneType" -> FALSE
      [] x.t = "bool" -> x.v
      [] x.t = "int" -> x.v # 0
      [] x.t = "float" -> x.kind # "finite" \/ x.num # 0
      [] x.t = "dict" -> DOMAIN x.v # {}
      [] OTHER -> Len(x.v) > 0

---------------------------------------------------------------------------
(* The configuration schema of the plugin and the configuration tree *)

K_enabled == <<"p", "l", "u", "g", "i", "n", ".", "e", "n", "a", "b", "l", "e", "d">>
K_config_version == <<"p", "l", "u", "g", "i", "n", ".", "c", "o", "n", "f", "i", "g", "_", "v", "e", "r", "s", "i", "o", "n">>
K_plugin_name == <<"p", "l", "u", "g", "i", "n", ".", "p", "l", "u", "g", "i", "n", "_", "n", "a", "m", "e">>
K_debug_mode == <<"p", "l", "u", "g", "i", "n", ".", "d", "e", "b", "u", "g", "_", "m", "o", "d", "e">>
K_enable_greetings == <<"f", "e", "a", "t", "u", "r", "e", "s", ".", "e", "n", "a", "b", "l", "e", "_", "g", "r", "e", "e", "t", "i", "n", "g", "s">>
K_enable_smart_responses == <<"f", "e", "a", "t", "u", "r", "e", "s", ".", "e", "n", "a", "b", "l", "e", "_", "s", "m", "a", "r", "t", "_", "r", "e", "s", "p", "o", "n", "s", "e", "s">>
K_enable_help_command == <<"f", "e", "a", "t", "u", "r", "e", "s", ".", "e", "n", "a", "b", "l", "e", "_", "h", "e", "l", "p", "_", "c", "o", "m", "m", "a", "n", "d">>
K_enable_config_command == <<"f", "e", "a", "t", "u", "r", "e", "s", ".", "e", "n", "a", "b", "l", "e", "_", "c", "o", "n", "f", "i", "g", "_", "c", "o", "m", "m", "a", "n", "d">>
K_greeting_keywords == <<"a", "c", "t", "i", "o", "n", "s", ".", "g", "r", "e", "e", "t", "i", "n", "g", "_", "k", "e", "y", "w", "o", "r", "d", "s">>
K_response_probability == <<"a", "c", "t", "i", "o", "n", "s", ".", "r", "e", "s", "p", "o", "n", "s", "e", "_", "p", "r", "o", "b", "a", "b", "i", "l", "i", "t", "y">>
K_max_response_length == <<"a", "c", "t", "i", "o", "n", "s", ".", "m", "a", "x", "_", "r", "e", "s", "p", "o", "n", "s", "e", "_", "l", "e", "n", "g", "t", "h">>
K_enable_emoji == <<"a", "c", "t", "i", "o", "n", "s", ".", "e", "n", "a", "b", "l", "e", "_", "e", "m", "o", "j", "i">>
K_help_prefix == <<"c", "o", "m", "m", "a", "n", "d", "s", ".", "h", "e", "l", "p", "_", "p", "r", "e", "f", "i", "x">>
K_config_admin_only == <<"c", "o", "m", "m", "a", "n", "d", "s", ".", "c", "o", "n", "f", "i", "g", "_", "a", "d", "m", "i", "n", "_", "o", "n", "l", "y">>
K_command_timeout == <<"c", "o", "m", "m", "a", "n", "d", "s", ".", "c", "o", "m", "m", "a", "n", "d", "_", "t", "i", "m", "e", "o", "u", "t">>
K_cache_enabled == <<"a", "d", "v", "a", "n", "c", "e", "d", ".", "c", "a", "c", "h", "e", "_", "e", "n", "a", "b", "l", "e", "d">>
K_cache_ttl == <<"a", "d", "v", "a", "n", "c", "e", "d", ".", "c", "a", "c", "h", "e", "_", "t", "t", "l">>
K_log_level == <<"a", "d", "v", "a", "n", "c", "e", "d", ".", "l", "o", "g", "_", "l", "e", "v", "e", "l">>
K_performance_monitor == <<"a", "d", "v", "a", "n", "c", "e", "d", ".", "p", "e", "r", "f", "o", "r", "m", "a", "n", "c", "e", "_", "m", "o", "n", "i", "t", "o", "r">>

\* the keys of config_schema, section by section
SchemaKeys ==
    { K_enabled, K_config_version, K_debug_mode,
      K_enable_greetings, K_enable_smart_responses, K_enable_help_command,
      K_enable_config_command,
      K_greeting_keywords, K_response_probability, K_max_response_length,
      K_enable_emoji,
      K_help_prefix, K_config_admin_only, K_command_timeout,
      K_cache_enabled, K_cache_ttl, K_log_level, K_performance_monitor }

\* ConfigField.default of each key of config_schema
SchemaDefault(key) ==
    CASE key = K_enabled -> PyBool(TRUE)
      [] key = K_config_version -> PyStr(<<"1", ".", "0", ".", "0">>)
      [] key = K_debug_mode -> PyBool(FALSE)
      [] key = K_enable_greetings -> PyBool(TRUE)
      [] key = K_enable_smart_responses -> PyBool(TRUE)
      [] key = K_enable_help_command -> PyBool(TRUE)
      [] key = K_enable_config_command -> PyBool(FALSE)
      [] key = K_greeting_keywords -> PyList(<<<<"U+4F60", "U+597D">>, <<"h", "e", "l", "l", "o">>, <<"h", "i">>, <<"U+55E8">>>>)
      [] key = K_response_probability -> PyFloat(1, 1)
      [] key = K_max_response_length -> PyInt(200)
      [] key = K_enable_emoji -> PyBool(TRUE)
      [] key = K_help_prefix -> PyStr(<<"U+1F4D6">>)
      [] key = K_config_admin_only -> PyBool(TRUE)
      [] key = K_command_timeout -> PyInt(30)
      [] key = K_cache_enabled -> PyBool(TRUE)
      [] key = K_cache_ttl -> PyInt(3600)
      [] key = K_log_level -> PyStr(<<"I", "N", "F", "O">>)
      [] key = K_performance_monitor -> PyBool(FALSE)

\* ConfigField.choices of a key, empty for a key that declares none
SchemaChoices(key) ==
    IF key = K_log_level
    THEN {<<"D", "E", "B", "U", "G">>, <<"I", "N", "F", "O">>, <<"W", "A", "R", "N", "I", "N", "G">>, <<"E", "R", "R", "O", "R">>}
    ELSE {}

\* get_config(key, default): the value stored under the key, else the default
get_config(cfg, key, default) == IF key \in DOMAIN cfg THEN cfg[key] ELSE default

\* The tree the host loads: the schema defaults, overlaid with the flags of
\* `flags` (a function from some boolean keys to "true", "false" or "absent";
\* an absent key is missing from the tree, as in the partial trees of the tests)
ConfigWith(flags) ==
    [k \in SchemaKeys \ {f \in DOMAIN flags : flags[f] = "absent"} |->
        IF k \in DOMAIN flags THEN PyBool(flags[k] = "true") ELSE SchemaDefault(k)]

FlagStates == {"true", "false", "absent"}

---------------------------------------------------------------------------
(* plugin.py: component registration *)

\* the keys get_plugin_components reads
RegistryFlags ==
    { K_enabled, K_enable_greetings, K_enable_smart_responses,
      K_enable_help_command, K_enable_config_command }

RegistryConfigs == {ConfigWith(f) : f \in [RegistryFlags -> FlagStates]}

\* get_plugin_components without the test of plugin.enabled
get_plugin_components_no_master_check(cfg) ==
       (IF Truthy(get_config(cfg, K_enable_greetings, PyBool(TRUE)))
        THEN <<"GreetingAction">> ELSE <<>>)
    \o (IF Truthy(get_config(cfg, K_enable_smart_responses, PyBool(TRUE)))
        THEN <<"SmartResponseAction">> ELSE <<>>)
    \o (IF Truthy(get_config(cfg, K_enable_help_command, PyBool(TRUE)))
        THEN <<"HelpCommand">> ELSE <<>>)
    \o (IF Truthy(get_config(cfg, K_enable_config_command, PyBool(FALSE)))
        THEN <<"ConfigCommand">> ELSE <<>>)

\* get_plugin_components with SmartResponseAction gated by the greeting flag
get_plugin_components_wrong_flag(cfg) ==
    IF ~Truthy(get_config(cfg, K_enabled, PyBool(TRUE))) THEN <<>>
    ELSE   (IF Truthy(get_config(cfg, K_enable_greetings, PyBool(TRUE)))
            THEN <<"GreetingAction">> ELSE <<>>)
        \o (IF Truthy(get_config(cfg, K_enable_greetings, PyBool(TRUE)))
            THEN <<"SmartResponseAction">> ELSE <<>>)
        \o (IF Truthy(get_config(cfg, K_enable_help_command, PyBool(TRUE)))
            THEN <<"HelpCommand">> ELSE <<>>)
        \o (IF Truthy(get_config(cfg, K_enable_config_command, PyBool(FALSE)))
            THEN <<"ConfigCommand">> ELSE <<>>)

\* get_plugin_components with the commands appended before the actions
get_plugin_components_commands_first(cfg) ==
    IF ~Truthy(get_config(cfg, K_enabled, PyBool(TRUE))) THEN <<>>
    ELSE   (IF Truthy(get_config(cfg, K_enable_help_command, PyBool(TRUE)))
            THEN <<"HelpCommand">> ELSE <<>>)
        \o (IF Truthy(get_config(cfg, K_enable_config_command, PyBool(FALSE)))
            THEN <<"ConfigCommand">> ELSE <<>>)
        \o (IF Truthy(get_config(cfg, K_enable_greetings, PyBool(TRUE)))
            THEN <<"GreetingAction">> ELSE <<>>)
        \o (IF Truthy(get_config(cfg, K_enable_smart_responses, PyBool(TRUE)))
            THEN <<"SmartResponseAction">> ELSE <<>>)

\* get_plugin_components reading the help flag with default False
get_plugin_components_help_default_false(cfg) ==
    IF ~Truthy(get_config(cfg, K_enabled, PyBool(TRUE))) THEN <<>>
    ELSE   (IF Truthy(get_config(cfg, K_enable_greetings, PyBool(TRUE)))
            THEN <<"GreetingAction">> ELSE <<>>)
        \o (IF Truthy(get_config(cfg, K_enable_smart_responses, PyBool(TRUE)))
            THEN <<"SmartResponseAction">> ELSE <<>>)
        \o (IF Truthy(get_config(cfg, K_enable_help_command, PyBool(FALSE)))
            THEN <<"HelpCommand">> ELSE <<>>)
        \o (IF Truthy(get_config(cfg, K_enable_config_command, PyBool(FALSE)))
            THEN <<"ConfigCommand">> ELSE <<>>)

\* ExampleTemplatePlugin.get_plugin_components: the classes of the returned
\* (info, class) pairs, in the order of the appends
get_plugin_components(cfg) ==
    IF ~Truthy(get_config(cfg, K_enabled, PyBool(TRUE))) THEN <<>>
    ELSE   (IF Truthy(get_config(cfg, K_enable_greetings, PyBool(TRUE)))
            THEN <<"GreetingAction">> ELSE <<>>)
        \o (IF Truthy(get_config(cfg, K_enable_smart_responses, PyBool(TRUE)))
            THEN <<"SmartResponseAction">> ELSE <<>>)
        \o (IF Truthy(get_config(cfg, K_enable_help_command, PyBool(TRUE)))
            THEN <<"HelpCommand">> ELSE <<>>)
        \o (IF Truthy(get_config(cfg, K_enable_config_command, PyBool(FALSE)))
            THEN <<"ConfigCommand">> ELSE <<>>)

---------------------------------------------------------------------------
(* config_command.py: conversion and validation *)

\* x in [..] for a Python list
In(x, list) == \E i \in 1..Len(list) : list[i] = x

\* a run of digits, single underscores allowed between digits
DigitGroup(s) ==
    /\ Len(s) > 0
    /\ IsDigit(s[1])
    /\ IsDigit(s[Len(s)])
    /\ \A i \in 1..Len(s) : IsDigit(s[i]) \/ s[i] = "_"
    /\ \A i \in 1..(Len(s) - 1) : ~(s[i] = "_" /\ s[i + 1] = "_")

Digits(s) == SelectSeq(s, IsDigit)

HasSign(s) == Len(s) > 0 /\ s[1] \in {"+", "-"}
SignOf(s) == IF HasSign(s) /\ s[1] = "-" THEN -1 ELSE 1
Unsigned(s) == IF HasSign(s) THEN Tail(s) ELSE s

\* int(value): surrounding whitespace, an optional sign, decimal digits
ParseInt(value) ==
    LET s == Strip(value)
        d == Unsigned(s)
    IN  IF DigitGroup(d)
        THEN [ok |-> TRUE, v |-> SignOf(s) * DigitsValue(Digits(d))]
        ELSE [ok |-> FALSE, v |-> 0]

\* the decimal literal  [digits][.[digits]][(e|E)[sign]digits]  as a float
ParseDecimal(sign, body) ==
    LET epos == {i \in 1..Len(body) : body[i] \in {"e", "E"}}
        e1 == IF epos = {} THEN Len(body) + 1
              ELSE CHOOSE i \in epos : \A j \in epos : i <= j
        mant == SubSeq(body, 1, e1 - 1)
        expo == SubSeq(body, e1 + 1, Len(body))
        parts == SplitOn(mant, ".")
        ip == parts[1]
        fp == IF Len(parts) > 1 THEN parts[2] ELSE <<>>
        mantOk == /\ Len(parts) <= 2
                  /\ ip = <<>> \/ DigitGroup(ip)
                  /\ fp = <<>> \/ DigitGroup(fp)
                  /\ ip # <<>> \/ fp # <<>>
        expoOk == epos = {} \/ DigitGroup(Unsigned(expo))
        e == IF epos = {} THEN 0
             ELSE SignOf(expo) * DigitsValue(Digits(Unsigned(expo)))
        n == sign * DigitsValue(Digits(ip) \o Digits(fp))
        shift == e - Len(Digits(fp))
    IN  IF mantOk /\ expoOk
        THEN [ok |-> TRUE,
              v |-> IF shift >= 0 THEN PyFloat(n * Pow10(shift), 0)
                    ELSE PyFloat(n, 0 - shift)]
        ELSE [ok |-> FALSE, v |-> PyNone]

\* float(value): surrounding whitespace, an optional sign, then inf, infinity
\* or nan in any letter case, or a decimal literal
ParseFloat(value) ==
    LET s == Strip(value)
        body == Unsigned(s)
        word == StrLower(body)
    IN  IF word \in {<<"i", "n", "f">>, <<"i", "n", "f", "i", "n", "i", "t", "y">>}
        THEN [ok |-> TRUE,
              v |-> PyFloatSpecial(IF SignOf(s) = -1 THEN "-inf" ELSE "inf")]
        ELSE IF word = <<"n", "a", "n">>
        THEN [ok |-> TRUE, v |-> PyFloatSpecial("nan")]
        ELSE ParseDecimal(SignOf(s), body)

\* the list branch of _convert_config_value
ParseList(value) ==
    IF Len(value) > 0 /\ value[1] = "[" /\ value[Len(value)] = "]"
    THEN LET items == SplitOn(SubSeq(value, 2, Len(value) - 1), ",")
             kept == SelectSeq(items, LAMBDA item : Strip(item) # <<>>)
         IN  [i \in 1..Len(kept) |-> StripQuotes(Strip(kept[i]))]
    ELSE <<value>>

Returned(x) == [ok |-> TRUE, val |-> x]
ValueError == [ok |-> FALSE, val |-> PyNone]

TrueWords == <<<<"t", "r", "u", "e">>, <<"1">>, <<"y", "e", "s">>, <<"o", "n">>, <<"e", "n", "a", "b", "l", "e", "d">>>>
FalseWords == <<<<"f", "a", "l", "s", "e">>, <<"0">>, <<"n", "o">>, <<"o", "f", "f">>, <<"d", "i", "s", "a", "b", "l", "e", "d">>>>

\* _convert_config_value comparing the raw string without lower()
_convert_config_value_case_sensitive(value, target_type) ==
    CASE target_type = "bool" ->
            IF In(value, TrueWords) THEN Returned(PyBool(TRUE))
            ELSE IF In(value, FalseWords) THEN Returned(PyBool(FALSE))
            ELSE ValueError
      [] target_type = "int" ->
            IF ParseInt(value).ok THEN Returned(PyInt(ParseInt(value).v))
            ELSE ValueError
      [] target_type = "float" ->
            IF ParseFloat(value).ok THEN Returned(ParseFloat(value).v)
            ELSE ValueError
      [] target_type = "list" -> Returned(PyList(ParseList(value)))
      [] OTHER -> Returned(PyStr(value))

\* ConfigCommand._convert_config_value(value, target_type); target_type is the
\* name of the type
_convert_config_value(value, target_type) ==
    CASE target_type = "bool" ->
            IF In(StrLower(value), TrueWords) THEN Returned(PyBool(TRUE))
            ELSE IF In(StrLower(value), FalseWords) THEN Returned(PyBool(FALSE))
            ELSE ValueError
      [] target_type = "int" ->
            IF ParseInt(value).ok THEN Returned(PyInt(ParseInt(value).v))
            ELSE ValueError
      [] target_type = "float" ->
            IF ParseFloat(value).ok THEN Returned(ParseFloat(value).v)
            ELSE ValueError
      [] target_type = "list" -> Returned(PyList(ParseList(value)))
      [] OTHER -> Returned(PyStr(value))

IsIdentStart(c) == IsAlpha(c) \/ c = "_"
IsIdentChar(c) == IsIdentStart(c) \/ IsDigit(c)

\* [a-zA-Z_][a-zA-Z0-9_]*
IsSegment(s) ==
    /\ Len(s) > 0
    /\ IsIdentStart(s[1])
    /\ \A i \in 2..Len(s) : IsIdentChar(s[i])

\* segment(\.segment)* over the whole string
IsDottedPath(s) ==
    LET segs == SplitOn(s, ".") IN \A i \in 1..Len(segs) : IsSegment(segs[i])

\* ConfigCommand._validate_config_key: re.match of the anchored pattern; `$`
\* also matches just before a final newline
_validate_config_key(key) ==
    \/ IsDottedPath(key)
    \/ /\ Len(key) > 0
       /\ key[Len(key)] = "\n"
       /\ IsDottedPath(SubSeq(key, 1, Len(key) - 1))

\* isinstance(x, int): bool is a subclass of int
IsInstanceInt(x) == x.t \in {"int", "bool"}
IntOf(x) == IF x.t = "bool" THEN (IF x.v THEN 1 ELSE 0) ELSE x.v

\* 0 <= x <= 1 for a number x
InUnitRange(x) ==
    IF IsInstanceInt(x) THEN 0 <= IntOf(x) /\ IntOf(x) <= 1
    ELSE x.kind = "finite" /\ 0 <= x.num /\ x.num <= Pow10(x.exp)

\* _validate_config_value with only the lower bound of the probability checked
_validate_config_value_no_upper_bound(key, value) ==
    CASE key = K_response_probability ->
            /\ IsInstanceInt(value) \/ value.t = "float"
            /\ IF IsInstanceInt(value) THEN 0 <= IntOf(value)
               ELSE value.kind = "finite" /\ 0 <= value.num
      [] key = K_command_timeout -> IsInstanceInt(value) /\ IntOf(value) > 0
      [] key = K_cache_ttl -> IsInstanceInt(value) /\ IntOf(value) > 0
      [] key = K_log_level ->
            /\ value.t = "str"
            /\ In(value.v, <<<<"D", "E", "B", "U", "G">>, <<"I", "N", "F", "O">>, <<"W", "A", "R", "N", "I", "N", "G">>, <<"E", "R", "R", "O", "R">>>>)
      [] OTHER -> TRUE

\* _validate_config_value with WARNING missing from the log levels
_validate_config_value_missing_warning(key, value) ==
    CASE key = K_response_probability ->
            (IsInstanceInt(value) \/ value.t = "float") /\ InUnitRange(value)
      [] key = K_command_timeout -> IsInstanceInt(value) /\ IntOf(value) > 0
      [] key = K_cache_ttl -> IsInstanceInt(value) /\ IntOf(value) > 0
      [] key = K_log_level ->
            /\ value.t = "str"
            /\ In(value.v, <<<<"D", "E", "B", "U", "G">>, <<"I", "N", "F", "O">>, <<"E", "R", "R", "O", "R">>>>)
      [] OTHER -> TRUE

\* ConfigCommand._validate_config_value: the rule of the key, if it has one
_validate_config_value(key, value) ==
    CASE key = K_response_probability ->
            (IsInstanceInt(value) \/ value.t = "float") /\ InUnitRange(value)
      [] key = K_command_timeout -> IsInstanceInt(value) /\ IntOf(value) > 0
      [] key = K_cache_ttl -> IsInstanceInt(value) /\ IntOf(value) > 0
      [] key = K_log_level ->
            /\ value.t = "str"
            /\ In(value.v, <<<<"D", "E", "B", "U", "G">>, <<"I", "N", "F", "O">>, <<"W", "A", "R", "N", "I", "N", "G">>, <<"E", "R", "R", "O", "R">>>>)
      [] OTHER -> TRUE

---------------------------------------------------------------------------
(* config_command.py: the handlers and execute *)

\* What one call did: the returned (success, message) pair, the texts it sent,
\* the steps it performed, the value it read, the value it computed, and the
\* configuration tree it leaves behind
Outcome(success, msg, texts, steps, current, new, cfg) ==
    [success |-> success, msg |-> msg, sent |-> texts, stages |-> steps,
     current |-> current, new |-> new, config |-> cfg]

\* `not key` for an Optional[str]: PyNone or the empty string
Missing(opt) == opt = NoStr \/ opt[1] = <<>>

\* _check_admin_permission taking a message without a user id for an
\* administrator's
_check_admin_permission_anonymous_admin(uid) ==
    LET admin_users == <<<<"a", "d", "m", "i", "n">>, <<"o", "w", "n", "e", "r">>, <<"d", "e", "v", "e", "l", "o", "p", "e", "r">>>>
        current_user == IF Missing(uid) THEN <<"a", "d", "m", "i", "n">> ELSE uid[1]
    IN  In(current_user, admin_users) \/ current_user = <<"d", "e", "m", "o", "_", "a", "d", "m", "i", "n">>

\* ConfigCommand._check_admin_permission
_check_admin_permission(uid) ==
    LET admin_users == <<<<"a", "d", "m", "i", "n">>, <<"o", "w", "n", "e", "r">>, <<"d", "e", "v", "e", "l", "o", "p", "e", "r">>>>
        current_user == IF Missing(uid) THEN <<"u", "n", "k", "n", "o", "w", "n">> ELSE uid[1]
    IN  In(current_user, admin_users) \/ current_user = <<"d", "e", "m", "o", "_", "a", "d", "m", "i", "n">>

\* ConfigCommand._handle_list_config
_handle_list_config(cfg) ==
    Outcome(TRUE, "listed", <<"config_list">>, <<>>, PyNone, PyNone, cfg)

\* ConfigCommand._handle_get_config
_handle_get_config(cfg, key) ==
    IF Missing(key)
    THEN Outcome(FALSE, "missing_key", <<"missing_key">>, <<>>, PyNone, PyNone, cfg)
    ELSE IF ~ _validate_config_key(key[1])
    THEN Outcome(FALSE, "invalid_key", <<"invalid_key">>, <<"validate_key">>,
                 PyNone, PyNone, cfg)
    ELSE Outcome(TRUE, "got", <<"query_result">>, <<"validate_key", "get_config">>,
                 get_config(cfg, key[1], PyNone), PyNone, cfg)

\* the denylist without plugin.plugin_name
readonly_keys_without_plugin_name == <<K_config_version>>

readonly_keys == <<K_config_version, K_plugin_name>>

\* the tree with `val` stored under `key`
Install(cfg, key, val) ==
    [k \in DOMAIN cfg \cup {key} |-> IF k = key THEN val ELSE cfg[k]]

\* _handle_set_config storing the converted value before it validates it
_handle_set_config_writes_first(cfg, key, value) ==
    IF Missing(key)
    THEN Outcome(FALSE, "missing_key", <<"missing_key">>, <<>>, PyNone, PyNone, cfg)
    ELSE IF value = NoStr
    THEN Outcome(FALSE, "missing_value", <<"missing_value">>, <<>>, PyNone, PyNone, cfg)
    ELSE IF ~ _validate_config_key(key[1])
    THEN Outcome(FALSE, "invalid_key", <<"invalid_key">>, <<"validate_key">>,
                 PyNone, PyNone, cfg)
    ELSE IF In(key[1], <<K_config_version, K_plugin_name>>)
    THEN Outcome(FALSE, "readonly", <<"readonly">>,
                 <<"validate_key", "readonly_check">>, PyNone, PyNone, cfg)
    ELSE LET current_value == get_config(cfg, key[1], PyNone)
             converted == _convert_config_value(value[1], current_value.t)
         IN  IF ~converted.ok
             THEN Outcome(FALSE, "conversion_failed", <<"conversion_failed">>,
                          <<"validate_key", "readonly_check", "get_config", "convert">>,
                          current_value, PyNone, cfg)
             ELSE IF ~ _validate_config_value(key[1], converted.val)
             THEN Outcome(FALSE, "validation_failed", <<"validation_failed">>,
                          <<"validate_key", "readonly_check", "get_config", "convert",
                            "validate_value">>,
                          current_value, converted.val,
                          Install(cfg, key[1], converted.val))
             ELSE Outcome(TRUE, "set", <<"update_success">>,
                          <<"validate_key", "readonly_check", "get_config", "convert",
                            "validate_value">>,
                          current_value, converted.val,
                          Install(cfg, key[1], converted.val))

\* _handle_set_config returning the conversion failure without telling the user
_handle_set_config_unreported_conversion(cfg, key, value) ==
    IF Missing(key)
    THEN Outcome(FALSE, "missing_key", <<"missing_key">>, <<>>, PyNone, PyNone, cfg)
    ELSE IF value = NoStr
    THEN Outcome(FALSE, "missing_value", <<"missing_value">>, <<>>, PyNone, PyNone, cfg)
    ELSE IF ~ _validate_config_key(key[1])
    THEN Outcome(FALSE, "invalid_key", <<"invalid_key">>, <<"validate_key">>,
                 PyNone, PyNone, cfg)
    ELSE IF In(key[1], readonly_keys)
    THEN Outcome(FALSE, "readonly", <<"readonly">>,
                 <<"validate_key", "readonly_check">>, PyNone, PyNone, cfg)
    ELSE LET current_value == get_config(cfg, key[1], PyNone)
             converted == _convert_config_value(value[1], current_value.t)
         IN  IF ~converted.ok
             THEN Outcome(FALSE, "conversion_failed", <<>>,
                          <<"validate_key", "readonly_check", "get_config", "convert">>,
                          current_value, PyNone, cfg)
             ELSE IF ~ _validate_config_value(key[1], converted.val)
             THEN Outcome(FALSE, "validation_failed", <<"validation_failed">>,
                          <<"validate_key", "readonly_check", "get_config", "convert",
                            "validate_value">>,
                          current_value, converted.val, cfg)
             ELSE \* the handler reports success without writing the tree
                  Outcome(TRUE, "set", <<"update_success">>,
                          <<"validate_key", "readonly_check", "get_config", "convert",
                            "validate_value">>,
                          current_value, converted.val, cfg)

\* ConfigCommand._handle_set_config
_handle_set_config(cfg, key, value) ==
    IF Missing(key)
    THEN Outcome(FALSE, "missing_key", <<"missing_key">>, <<>>, PyNone, PyNone, cfg)
    ELSE IF value = NoStr
    THEN Outcome(FALSE, "missing_value", <<"missing_value">>, <<>>, PyNone, PyNone, cfg)
    ELSE IF ~ _validate_config_key(key[1])
    THEN Outcome(FALSE, "invalid_key", <<"invalid_key">>, <<"validate_key">>,
                 PyNone, PyNone, cfg)
    ELSE IF In(key[1], readonly_keys)
    THEN Outcome(FALSE, "readonly", <<"readonly">>,
                 <<"validate_key", "readonly_check">>, PyNone, PyNone, cfg)
    ELSE LET current_value == get_config(cfg, key[1], PyNone)
             converted == _convert_config_value(value[1], current_value.t)
         IN  IF ~converted.ok
             THEN Outcome(FALSE, "conversion_failed", <<"conversion_failed">>,
                          <<"validate_key", "readonly_check", "get_config", "convert">>,
                          current_value, PyNone, cfg)
             ELSE IF ~ _validate_config_value(key[1], converted.val)
             THEN Outcome(FALSE, "validation_failed", <<"validation_failed">>,
                          <<"validate_key", "readonly_check", "get_config", "convert",
                            "validate_value">>,
                          current_value, converted.val, cfg)
             ELSE \* the handler reports success without writing the tree
                  Outcome(TRUE, "set", <<"update_success">>,
                          <<"validate_key", "readonly_check", "get_config", "convert",
                            "validate_value">>,
                          current_value, converted.val, cfg)

\* the default_values table of _handle_reset_config, "未知" for other keys
reset_default(key) ==
    CASE key = K_debug_mode -> PyBool(FALSE)
      [] key = K_enable_greetings -> PyBool(TRUE)
      [] key = K_response_probability -> PyFloat(1, 1)
      [] key = K_help_prefix -> PyStr(<<"U+1F4D6">>)
      [] OTHER -> PyStr(<<"U+672A", "U+77E5">>)

\* ConfigCommand._handle_reset_config
_handle_reset_config(cfg, key) ==
    IF Missing(key)
    THEN Outcome(FALSE, "missing_key", <<"missing_key">>, <<>>, PyNone, PyNone, cfg)
    ELSE IF ~ _validate_config_key(key[1])
    THEN Outcome(FALSE, "invalid_key", <<"invalid_key">>, <<"validate_key">>,
                 PyNone, PyNone, cfg)
    ELSE Outcome(TRUE, "reset", <<"reset_success">>, <<"validate_key", "get_config">>,
                 get_config(cfg, key[1], PyNone), reset_default(key[1]), cfg)

\* the texts sent before the handler runs come first
AfterTexts(texts, out) == [out EXCEPT !.sent = texts \o @]

\* ConfigCommand.execute, for matched_groups {action, key, value}
execute(cfg, uid, action, key, value) ==
    IF ~Truthy(get_config(cfg, K_enable_config_command, PyBool(FALSE)))
    THEN Outcome(FALSE, "disabled", <<"disabled">>, <<>>, PyNone, PyNone, cfg)
    ELSE IF /\ Truthy(get_config(cfg, K_config_admin_only, PyBool(TRUE)))
            /\ ~ _check_admin_permission(uid)
    THEN Outcome(FALSE, "no_permission", <<"no_permission">>, <<>>, PyNone, PyNone, cfg)
    ELSE LET debug_mode == Truthy(get_config(cfg, K_debug_mode, PyBool(FALSE)))
             texts == IF debug_mode THEN <<"debug">> ELSE <<>>
         IN  IF Missing(action)
             THEN Outcome(FALSE, "missing_action", texts \o <<"missing_action">>,
                          <<>>, PyNone, PyNone, cfg)
             ELSE IF action[1] = <<"l", "i", "s", "t">>
             THEN AfterTexts(texts, _handle_list_config(cfg))
             ELSE IF action[1] = <<"g", "e", "t">>
             THEN AfterTexts(texts, _handle_get_config(cfg, key))
             ELSE IF action[1] = <<"s", "e", "t">>
             THEN AfterTexts(texts, _handle_set_config(cfg, key, value))
             ELSE IF action[1] = <<"r", "e", "s", "e", "t">>
             THEN AfterTexts(texts, _handle_reset_config(cfg, key))
             ELSE Outcome(FALSE, "unsupported_action",
                          texts \o <<"unsupported_action">>, <<>>, PyNone, PyNone, cfg)

---------------------------------------------------------------------------
(* Inputs *)

\* the callers of the configuration command: an administrator, another user,
\* and a message without a user id
Users == {Some(<<"a", "d", "m", "i", "n">>), Some(<<"t", "e", "s", "t", "_", "u", "s", "e", "r">>), NoStr}

\* the trees the configuration command runs on
CommandConfigs ==
    {ConfigWith(f) :
        f \in {g \in [{K_enable_config_command, K_config_admin_only, K_debug_mode}
                        -> FlagStates] : g[K_debug_mode] # "absent"}}

KeyInputs ==
    { NoStr, Some(K_debug_mode), Some(K_config_version), Some(K_plugin_name),
      Some(K_response_probability), Some(K_log_level), Some(K_command_timeout),
      Some(K_greeting_keywords), Some(K_help_prefix), Some(<<"d", "e", "b", "u", "g", "_", "m", "o", "d", "e">>),
      Some(<<"1", "2", "3", "i", "n", "v", "a", "l", "i", "d">>), Some(<<"p", "l", "u", "g", "i", "n", ".", ".", "e", "n", "a", "b", "l", "e", "d">>) }

ValueInputs ==
    { NoStr, Some(<<"t", "r", "u", "e">>), Some(<<"T", "R", "U", "E">>), Some(<<"o", "f", "f">>), Some(<<"m", "a", "y", "b", "e">>),
      Some(<<"1", ".", "5">>), Some(<<"0", ".", "5">>), Some(<<"1">>), Some(<<"0">>), Some(<<"-", "1">>),
      Some(<<"1", ".", "0">>), Some(<<"1", ".", "0", "1">>), Some(<<"-", "0", ".", "1">>), Some(<<"n", "a", "n">>),
      Some(<<"3", "0">>), Some(<<"I", "N", "F", "O">>), Some(<<"D", "E", "B", "U", "G">>), Some(<<"W", "A", "R", "N", "I", "N", "G">>),
      Some(<<"E", "R", "R", "O", "R">>), Some(<<"i", "n", "f", "o">>), Some(<<"I", "N", "V", "A", "L", "I", "D">>), Some(<<"2", ".", "0", ".", "0">>),
      Some(<<"[", "a", ",", " ", "\"", "b", "\"", "]">>) }

\* matched_groups {action, key, value}: what the command pattern captures, and
\* the empty groups of a command that was constructed without a match
Requests ==
         {<<Some(<<"s", "e", "t">>), k, v>> : k \in KeyInputs, v \in ValueInputs}
    \cup {<<a, k, NoStr>> : a \in {Some(<<"g", "e", "t">>), Some(<<"r", "e", "s", "e", "t">>)}, k \in KeyInputs}
    \cup {<<Some(<<"l", "i", "s", "t">>), NoStr, NoStr>>, <<NoStr, NoStr, NoStr>>}

\* the arguments of _convert_config_value: every string over a small alphabet
\* up to MaxStrLen, every letter-case variant of the accepted words, and some
\* other literals
SmallAlphabet == {"o", "n", "f", "O", "N", "F", "0", "1"}

SmallStrings == UNION {[1..k -> SmallAlphabet] : k \in 0..MaxStrLen}

UpperChar(c) ==
    IF c \in Range(LowerChars) THEN UpperChars[IndexOf(c, LowerChars)] ELSE c

CaseVariants(w) ==
    {[i \in 1..Len(w) |-> IF m[i] THEN UpperChar(w[i]) ELSE w[i]] :
        m \in [1..Len(w) -> BOOLEAN]}

OtherLiterals ==
    { <<"m", "a", "y", "b", "e">>, <<"t", "r", "u">>, <<"t", "r", "u", "e", "e">>, <<" ", "t", "r", "u", "e">>, <<"y">>, <<"2">>, <<"1", "2", "3">>, <<"-", "4", "5", "6">>,
      <<"a", "b", "c">>, <<"1", ".", "5">>, <<"0", ".", "5">>, <<"1", "e", "1">>, <<"n", "a", "n">>, <<"-", "i", "n", "f">>, <<"I", "N", "F", "O">>,
      <<"[", "\"", "a", "\"", ",", " ", "\"", "b", "\"", ",", " ", "\"", "c", "\"", "]">>, <<"s", "i", "n", "g", "l", "e">> }

ConvertValues ==
    SmallStrings \cup OtherLiterals
    \cup UNION {CaseVariants(TrueWords[i]) : i \in 1..Len(TrueWords)}
    \cup UNION {CaseVariants(FalseWords[i]) : i \in 1..Len(FalseWords)}

TargetTypes == {"bool", "int", "float", "list", "str", "NoneType"}

---------------------------------------------------------------------------
(* The state machines *)

NotCalled == <<>>

NoResult ==
    [called |-> FALSE, action |-> NoStr, key |-> NoStr, value |-> NoStr,
     success |-> FALSE, msg |-> "", current |-> PyNone, new |-> PyNone]

NoConv == [called |-> FALSE, value |-> <<>>, target_type |-> "NoneType",
           out |-> ValueError]

\* re.match not yet applied
NoHelpMatch == [called |-> FALSE, matched |-> FALSE, topic |-> NoStr]
NoConfigMatch == [called |-> FALSE, matched |-> FALSE, action |-> NoStr,
                  key |-> NoStr, value |-> NoStr]

\* no message is being matched
PatternIdle ==
    /\ text = <<>>
    /\ help_match = NoHelpMatch
    /\ config_match = NoConfigMatch

\* no component instance has been constructed
NoInstance == [cls |-> "none"]

\* a cache without entries, and no key
EmptyCache == [k \in {} |-> <<>>]
NoKey == <<>>
NoCall == [key |-> NoKey, max_length |-> PyNone]

\* SmartResponseAction.execute has not been called
HistoryIdle ==
    /\ reply = NoStr
    /\ last_call = NoCall
    /\ stored_at = EmptyCache

FeatureIdle ==
    /\ instance = NoInstance
    /\ now = 0
    /\ HistoryIdle

\* ManifestValidator.__init__: nothing validated yet
NewValidator ==
    [called |-> FALSE, errors |-> <<>>, warnings |-> <<>>, returned |-> FALSE,
     raised |-> FALSE]

\* the script has not exited
Running == -1

ManifestIdle ==
    /\ manifest_file = [state |-> "missing"]
    /\ validator = NewValidator
    /\ exit_code = Running

\* the areas that take no part in a specification stay as constructed
ExtraIdle ==
    /\ origin = PyNone
    /\ PatternIdle
    /\ FeatureIdle
    /\ ManifestIdle

\* the host asks the plugin for its components
Call_get_plugin_components ==
    /\ components' = <<get_plugin_components(config)>>
    /\ UNCHANGED <<config, user_id, result, sent, stages, conv, extraVars>>

\* the host runs the configuration command on one matched message
Call_execute(action, key, value) ==
    LET out == execute(config, user_id, action, key, value)
    IN  /\ ~result.called
        /\ result' = [called |-> TRUE, action |-> action, key |-> key,
                      value |-> value, success |-> out.success, msg |-> out.msg,
                      current |-> out.current, new |-> out.new]
        /\ sent' = out.sent
        /\ stages' = out.stages
        /\ config' = out.config
        /\ UNCHANGED <<components, user_id, conv, extraVars>>

\* the host constructs a new command instance for the next message
New_command ==
    /\ result.called
    /\ result' = NoResult
    /\ sent' = <<>>
    /\ stages' = <<>>
    /\ UNCHANGED <<config, components, user_id, conv, extraVars>>

\* one call of _convert_config_value on the drawn arguments
Call_convert_config_value ==
    /\ ~conv.called
    /\ conv' = [conv EXCEPT !.called = TRUE,
                            !.out = _convert_config_value(conv.value, conv.target_type)]
    /\ UNCHANGED <<config, components, user_id, result, sent, stages, extraVars>>

\* the configuration command
Init ==
    /\ config \in CommandConfigs
    /\ user_id \in Users
    /\ components = NotCalled
    /\ result = NoResult
    /\ sent = <<>>
    /\ stages = <<>>
    /\ conv = NoConv
    /\ ExtraIdle

Next ==
    \/ \E r \in Requests : Call_execute(r[1], r[2], r[3])
    \/ New_command

Spec == Init /\ [][Next]_vars

\* component registration
InitComponents ==
    /\ config \in RegistryConfigs
    /\ user_id = NoStr
    /\ components = NotCalled
    /\ result = NoResult
    /\ sent = <<>>
    /\ stages = <<>>
    /\ conv = NoConv
    /\ ExtraIdle

NextComponents == Call_get_plugin_components

SpecComponents == InitComponents /\ [][NextComponents]_vars

\* the conversion of raw strings
InitConvert ==
    /\ config = ConfigWith(<<>>)
    /\ user_id = NoStr
    /\ components = NotCalled
    /\ result = NoResult
    /\ sent = <<>>
    /\ stages = <<>>
    /\ conv \in {[called |-> FALSE, value |-> v, target_type |-> t, out |-> ValueError] :
                    v \in ConvertValues, t \in TargetTypes}
    /\ ExtraIdle

NextConvert == Call_convert_config_value

SpecConvert == InitConvert /\ [][NextConvert]_vars

---------------------------------------------------------------------------
(* Component registration: C1 - C4 *)

\* the declaration order of the four components and the flag gating each
DeclOrder == <<"GreetingAction", "SmartResponseAction", "HelpCommand", "ConfigCommand">>

FlagOrder ==
    <<K_enable_greetings, K_enable_smart_responses, K_enable_help_command,
      K_enable_config_command>>

Registered == components[1]

Has(key, b) == key \in DOMAIN config /\ config[key] = PyBool(b)

\* DeclOrder without its i-th component
Without(i) == SelectSeq(DeclOrder, LAMBDA c : c # DeclOrder[i])

RECURSIVE IsSubsequence(_, _)
IsSubsequence(s, t) ==
    IF Len(s) = 0 THEN TRUE
    ELSE IF Len(t) = 0 THEN FALSE
    ELSE IF s[1] = t[1] THEN IsSubsequence(Tail(s), Tail(t))
    ELSE IsSubsequence(s, Tail(t))

\* C1: when plugin.enabled is false, get_plugin_components returns the empty
\* list, whatever the four feature flags are.
C1_DisabledReturnsEmpty ==
    (components # NotCalled /\ Has(K_enabled, FALSE)) => Registered = <<>>

C1_Witness ==
    /\ components # NotCalled
    /\ Has(K_enabled, FALSE)
    /\ \A i \in 1..4 : Has(FlagOrder[i], TRUE)
    /\ Registered = <<>>

\* C2: with plugin.enabled true, a component whose flag is set is in the result
\* exactly if the flag is true; with exactly one flag false and the others true
\* the result is the declaration order without the component of that flag.
C2_FlagDecides ==
    (components # NotCalled /\ Has(K_enabled, TRUE)) =>
        /\ \A i \in 1..4 :
              FlagOrder[i] \in DOMAIN config =>
                  (In(DeclOrder[i], Registered) <=> Has(FlagOrder[i], TRUE))
        /\ \A i \in 1..4 :
              (/\ Has(FlagOrder[i], FALSE)
               /\ \A j \in (1..4) \ {i} : Has(FlagOrder[j], TRUE))
              => Registered = Without(i)

C2_Witness ==
    /\ components # NotCalled
    /\ Has(K_enabled, TRUE)
    /\ Has(K_enable_greetings, FALSE)
    /\ \A j \in 2..4 : Has(FlagOrder[j], TRUE)
    /\ Registered = <<"SmartResponseAction", "HelpCommand", "ConfigCommand">>

\* C3: the returned list is a subsequence of the declaration order
\* [GreetingAction, SmartResponseAction, HelpCommand, ConfigCommand] and holds
\* no component twice.
C3_DeclarationOrder ==
    components # NotCalled =>
        /\ IsSubsequence(Registered, DeclOrder)
        /\ \A i, j \in 1..Len(Registered) : Registered[i] = Registered[j] => i = j

C3_Witness ==
    /\ components # NotCalled
    /\ Registered = DeclOrder

\* C4 as claimed: with plugin.enabled true, each of the four components whose
\* flag is absent from the configuration is in the result.
C4_AbsentFlagIncluded ==
    (components # NotCalled /\ Has(K_enabled, TRUE)) =>
        \A i \in 1..4 :
            FlagOrder[i] \notin DOMAIN config => In(DeclOrder[i], Registered)

\* C4 as amended: with plugin.enabled true, GreetingAction, SmartResponseAction
\* and HelpCommand are in the result when their flag is absent (default true),
\* and ConfigCommand is not in the result when its flag is absent (default
\* false).
C4_AbsentFlagDefault ==
    (components # NotCalled /\ Has(K_enabled, TRUE)) =>
        \A i \in 1..4 :
            FlagOrder[i] \notin DOMAIN config =>
                (In(DeclOrder[i], Registered) <=> DeclOrder[i] # "ConfigCommand")

C4_Witness ==
    /\ components # NotCalled
    /\ Has(K_enabled, TRUE)
    /\ \A i \in 1..4 : FlagOrder[i] \notin DOMAIN config
    /\ Registered = <<"GreetingAction", "SmartResponseAction", "HelpCommand">>

---------------------------------------------------------------------------
(* The configuration command: C5 - C9 *)

\* the last call reached the handler of action `a`
HandlerRan(a) ==
    /\ result.called
    /\ result.action = Some(a)
    /\ result.msg \notin {"disabled", "no_permission"}

\* every key a get may ask for
AllKeys == SchemaKeys \cup {k[1] : k \in KeyInputs \ {NoStr}}

\* C5: after a set of a key k of the tree returned success with coerced value
\* v, get(k) returns v; in particular after set(plugin.debug_mode, "true") a
\* get of plugin.debug_mode returns True.
C5_SetThenGet ==
    (HandlerRan(<<"s", "e", "t">>) /\ result.success /\ result.key[1] \in DOMAIN config) =>
        get_config(config, result.key[1], PyNone) = result.new

\* C6: a set that fails leaves every configuration value unchanged: get(k)
\* returns the same value before and after the failed call, for every key k.
C6_FailedSetChangesNothing ==
    [][(/\ ~result.called
        /\ result'.called
        /\ result'.action = Some(<<"s", "e", "t">>)
        /\ ~result'.success)
       => \A k \in AllKeys :
             get_config(config', k, PyNone) = get_config(config, k, PyNone)]_vars

C6_Witness ==
    /\ HandlerRan(<<"s", "e", "t">>)
    /\ result.key = Some(K_response_probability)
    /\ result.value = Some(<<"1", ".", "5">>)
    /\ ~result.success
    /\ result.msg = "validation_failed"
    /\ result.new = PyFloat(15, 1)

\* C7: a set of plugin.config_version or plugin.plugin_name fails with the
\* read-only error for every supplied value, before the value is converted or
\* validated.
C7_ReadOnlyFirst ==
    (/\ HandlerRan(<<"s", "e", "t">>)
     /\ result.key \in {Some(<<"p", "l", "u", "g", "i", "n", ".", "c", "o", "n", "f", "i", "g", "_", "v", "e", "r", "s", "i", "o", "n">>), Some(<<"p", "l", "u", "g", "i", "n", ".", "p", "l", "u", "g", "i", "n", "_", "n", "a", "m", "e">>)}
     /\ result.value # NoStr)
    => /\ ~result.success
       /\ result.msg = "readonly"
       /\ ~In("convert", stages)
       /\ ~In("validate_value", stages)
       /\ result.new = PyNone

C7_Witness ==
    /\ HandlerRan(<<"s", "e", "t">>)
    /\ result.key = Some(<<"p", "l", "u", "g", "i", "n", ".", "p", "l", "u", "g", "i", "n", "_", "n", "a", "m", "e">>)
    /\ result.value = Some(<<"2", ".", "0", ".", "0">>)
    /\ result.msg = "readonly"
    /\ stages = <<"validate_key", "readonly_check">>

\* C8: a set of actions.response_probability to "1.5" fails with the
\* validation error and to "0.5" succeeds; a set of this key succeeds only if
\* the coerced value is a number in the closed range 0..1.
C8_ProbabilityRange ==
    (/\ HandlerRan(<<"s", "e", "t">>)
     /\ result.key = Some(<<"a", "c", "t", "i", "o", "n", "s", ".", "r", "e", "s", "p", "o", "n", "s", "e", "_", "p", "r", "o", "b", "a", "b", "i", "l", "i", "t", "y">>)
     /\ result.value # NoStr)
    => /\ result.value = Some(<<"1", ".", "5">>) =>
              ~result.success /\ result.msg = "validation_failed"
       /\ result.value = Some(<<"0", ".", "5">>) =>
              result.success /\ result.new = PyFloat(5, 1)
       /\ result.success =>
              /\ result.new.t = "float"
              /\ result.new.kind = "finite"
              /\ 0 <= result.new.num
              /\ result.new.num <= Pow10(result.new.exp)

C8_Witness ==
    /\ HandlerRan(<<"s", "e", "t">>)
    /\ result.key = Some(<<"a", "c", "t", "i", "o", "n", "s", ".", "r", "e", "s", "p", "o", "n", "s", "e", "_", "p", "r", "o", "b", "a", "b", "i", "l", "i", "t", "y">>)
    /\ result.value = Some(<<"1", ".", "5">>)
    /\ result.msg = "validation_failed"
    /\ In("validate_value", stages)

\* C9: for advanced.log_level the validator accepts a value exactly if it is
\* one of the choices the schema declares (DEBUG, INFO, WARNING, ERROR): a
\* set of the key succeeds exactly for those values, and the validator and the
\* schema agree on every candidate string.
C9_ChoicesAgree ==
    /\ (/\ HandlerRan(<<"s", "e", "t">>)
        /\ result.key = Some(<<"a", "d", "v", "a", "n", "c", "e", "d", ".", "l", "o", "g", "_", "l", "e", "v", "e", "l">>)
        /\ result.value # NoStr)
       => (result.success <=> result.value[1] \in SchemaChoices(K_log_level))
    /\ \A v \in ValueInputs \ {NoStr} :
          _validate_config_value(K_log_level, PyStr(v[1]))
              <=> v[1] \in {<<"D", "E", "B", "U", "G">>, <<"I", "N", "F", "O">>, <<"W", "A", "R", "N", "I", "N", "G">>, <<"E", "R", "R", "O", "R">>}
    /\ SchemaChoices(K_log_level) = {<<"D", "E", "B", "U", "G">>, <<"I", "N", "F", "O">>, <<"W", "A", "R", "N", "I", "N", "G">>, <<"E", "R", "R", "O", "R">>}

C9_Witness ==
    /\ HandlerRan(<<"s", "e", "t">>)
    /\ result.key = Some(<<"a", "d", "v", "a", "n", "c", "e", "d", ".", "l", "o", "g", "_", "l", "e", "v", "e", "l">>)
    /\ result.value = Some(<<"W", "A", "R", "N", "I", "N", "G">>)
    /\ result.success
    /\ In("validate_value", stages)

---------------------------------------------------------------------------
(* The conversion of raw strings: C10 *)

\* the two strings are equal up to the case of their ASCII letters
EqualsIgnoreCase(a, b) ==
    /\ Len(a) = Len(b)
    /\ \A i \in 1..Len(a) :
          \/ a[i] = b[i]
          \/ \E j \in 1..Len(UpperChars) : {a[i], b[i]} = {UpperChars[j], LowerChars[j]}

SpelledLike(value, words) == \E w \in words : EqualsIgnoreCase(value, w)

\* C10: coercing a raw string to bool returns True exactly for the strings
\* that are true, 1, yes, on or enabled up to letter case, False exactly for
\* false, 0, no, off or disabled up to letter case, and raises a conversion
\* error for every other string.
C10_BoolCoercion ==
    (conv.called /\ conv.target_type = "bool") =>
        LET yes == SpelledLike(conv.value,
                       {<<"t", "r", "u", "e">>, <<"1">>, <<"y", "e", "s">>, <<"o", "n">>, <<"e", "n", "a", "b", "l", "e", "d">>})
            no == SpelledLike(conv.value,
                       {<<"f", "a", "l", "s", "e">>, <<"0">>, <<"n", "o">>, <<"o", "f", "f">>, <<"d", "i", "s", "a", "b", "l", "e", "d">>})
        IN  /\ (conv.out = Returned(PyBool(TRUE))) <=> yes
            /\ (conv.out = Returned(PyBool(FALSE))) <=> no
            /\ (conv.out = ValueError) <=> (~yes /\ ~no)

C10_Witness ==
    /\ conv.called
    /\ conv.target_type = "bool"
    /\ conv.value = <<"E", "n", "A", "b", "L", "e", "D">>
    /\ conv.out = Returned(PyBool(TRUE))

---------------------------------------------------------------------------
(* The round trip of a stored value through str(): C11 *)

\* largest magnitude of the integers stored in the tree
MaxInt == 120

\* the decimal digits of a natural number
RECURSIVE NatDigits(_)
NatDigits(n) ==
    IF n < 10 THEN <<DigitChars[n + 1]>>
    ELSE NatDigits(n \div 10) \o <<DigitChars[(n % 10) + 1]>>

\* str(v) for a bool, an int, a string or None
str(v) ==
    CASE v.t = "bool" -> IF v.v THEN <<"T", "r", "u", "e">> ELSE <<"F", "a", "l", "s", "e">>
      [] v.t = "int" -> IF v.v < 0 THEN <<"-">> \o NatDigits(0 - v.v)
                        ELSE NatDigits(v.v)
      [] v.t = "str" -> v.v
      [] OTHER -> <<"N", "o", "n", "e">>

\* a schema key whose field has the type of the value
KeyOfType(t) ==
    CASE t = "bool" -> K_enable_emoji
      [] t = "int" -> K_max_response_length
      [] OTHER -> K_help_prefix

\* the tree with the command enabled for every user and `v` stored under the
\* key of its type
RoundTripConfig(v) ==
    Install(ConfigWith([k \in {K_enable_config_command, K_config_admin_only} |->
                            IF k = K_enable_config_command THEN "true" ELSE "false"]),
            KeyOfType(v.t), v)

\* /config set k str(get(k)) on the key that holds the stored value
Call_set_of_str ==
    Call_execute(Some(<<"s", "e", "t">>), Some(KeyOfType(origin.t)),
                 Some(str(get_config(config, KeyOfType(origin.t), PyNone))))

\* /config get k on the same key
Call_get ==
    Call_execute(Some(<<"g", "e", "t">>), Some(KeyOfType(origin.t)), NoStr)

InitRoundTrip ==
    /\ \/ origin \in {PyBool(b) : b \in BOOLEAN}
       \/ origin \in {PyInt(n) : n \in (0 - MaxInt)..MaxInt}
       \/ origin \in {PyStr(s) : s \in ConvertValues}
    /\ config = RoundTripConfig(origin)
    /\ user_id = NoStr
    /\ components = NotCalled
    /\ result = NoResult
    /\ sent = <<>>
    /\ stages = <<>>
    /\ conv = NoConv
    /\ PatternIdle
    /\ FeatureIdle
    /\ ManifestIdle

NextRoundTrip ==
    \/ Call_set_of_str
    \/ Call_get
    \/ New_command

SpecRoundTrip == InitRoundTrip /\ [][NextRoundTrip]_vars

\* C11: for a stored bool, int or string v, /config set k str(v) converts
\* str(v) back to v itself and succeeds, and the key still holds v: a get of
\* the key, before or after the set, returns v
C11_RoundTrip ==
    /\ get_config(config, KeyOfType(origin.t), PyNone) = origin
    /\ result.called /\ result.action = Some(<<"s", "e", "t">>) =>
          /\ result.value = Some(str(origin))
          /\ result.success
          /\ result.current = origin
          /\ result.new = origin
    /\ result.called /\ result.action = Some(<<"g", "e", "t">>) =>
          result.success /\ result.current = origin

C11_Witness ==
    /\ result.called
    /\ result.action = Some(<<"s", "e", "t">>)
    /\ origin = PyBool(TRUE)
    /\ result.value = Some(<<"T", "r", "u", "e">>)
    /\ result.new = PyBool(TRUE)

---------------------------------------------------------------------------
(* Key validation over arbitrary keys: C12 *)

\* longest key built from the key alphabet
MaxKeyLen == 4

\* ConfigHelper.validate_config_key: the same anchored pattern under re.match
validate_config_key(key) ==
    \/ IsDottedPath(key)
    \/ /\ Len(key) > 0
       /\ key[Len(key)] = "\n"
       /\ IsDottedPath(SubSeq(key, 1, Len(key) - 1))

\* a letter, a digit, the underscore, the dot, the hyphen and the newline
KeyAlphabet == {"a", "1", "_", ".", "-", "\n"}

\* every key over the alphabet up to MaxKeyLen, and the keys of
\* test_validate_config_key
KeyStrings ==
    UNION {[1..k -> KeyAlphabet] : k \in 0..MaxKeyLen}
    \cup { <<"p", "l", "u", "g", "i", "n", ".", "e", "n", "a", "b", "l", "e", "d">>, <<"f", "e", "a", "t", "u", "r", "e", "s", ".", "e", "n", "a", "b", "l", "e", "_", "g", "r", "e", "e", "t", "i", "n", "g", "s">>, <<"a", "c", "t", "i", "o", "n", "s", ".", "g", "r", "e", "e", "t", "i", "n", "g", "_", "k", "e", "y", "w", "o", "r", "d", "s">>,
           <<"a", "d", "v", "a", "n", "c", "e", "d", ".", "c", "a", "c", "h", "e", "_", "e", "n", "a", "b", "l", "e", "d">>, <<"1", "2", "3", "i", "n", "v", "a", "l", "i", "d">>, <<"p", "l", "u", "g", "i", "n", ".", ".", "e", "n", "a", "b", "l", "e", "d">>, <<"p", "l", "u", "g", "i", "n", ".">>,
           <<".", "p", "l", "u", "g", "i", "n">>, <<"p", "l", "u", "g", "i", "n", "-", "e", "n", "a", "b", "l", "e", "d">> }

KeyActions == {<<"g", "e", "t">>, <<"s", "e", "t">>, <<"r", "e", "s", "e", "t">>}

\* get, set or reset on a drawn key; set is given the value "true"
Call_execute_on_key(action, key) ==
    Call_execute(Some(action), Some(key),
                 IF action = <<"s", "e", "t">> THEN Some(<<"t", "r", "u", "e">>) ELSE NoStr)

InitKeys ==
    /\ config = ConfigWith([k \in {K_enable_config_command, K_config_admin_only} |->
                               IF k = K_enable_config_command THEN "true" ELSE "false"])
    /\ user_id = Some(<<"t", "e", "s", "t", "_", "u", "s", "e", "r">>)
    /\ components = NotCalled
    /\ result = NoResult
    /\ sent = <<>>
    /\ stages = <<>>
    /\ conv = NoConv
    /\ ExtraIdle

NextKeys ==
    \/ \E a \in KeyActions, k \in KeyStrings : Call_execute_on_key(a, k)
    \/ New_command

SpecKeys == InitKeys /\ [][NextKeys]_vars

\* C12: a key is accepted by both validators exactly when it is a non-empty
\* dot-separated sequence of segments [A-Za-z_][A-Za-z0-9_]*, and get, set and
\* reset return a failure for every other key
C12_KeyAcceptance ==
    result.called =>
        LET key == result.key[1]
        IN  /\ _validate_config_key(key) <=> IsDottedPath(key)
            /\ validate_config_key(key) <=> IsDottedPath(key)
            /\ ~IsDottedPath(key) => ~result.success

---------------------------------------------------------------------------
(* The command patterns under re.match: C13 - C16 *)

\* longest tail appended to a command head
MaxTailLen == 4

HasPrefix(s, p) == Len(s) >= Len(p) /\ SubSeq(s, 1, Len(p)) = p
Drop(s, n) == SubSeq(s, n + 1, Len(s))

\* \w on the characters of the model
IsWordChar(c) == IsAlpha(c) \/ IsDigit(c) \/ c = "_"

\* the length of the whitespace run \s* takes at the start of s
SpaceRun(s) ==
    CHOOSE n \in 0..Len(s) :
        /\ \A i \in 1..n : IsSpace(s[i])
        /\ n = Len(s) \/ ~IsSpace(s[n + 1])

\* the key pattern without dotted segments: \w+ over the whole of k
IsKeyToken_without_dots(k) ==
    Len(k) > 0 /\ \A j \in 1..Len(k) : IsWordChar(k[j])

\* \w+(?:\.\w+)* over the whole of k
IsKeyToken(k) ==
    LET segs == SplitOn(k, ".")
    IN  \A i \in 1..Len(segs) :
            /\ Len(segs[i]) > 0
            /\ \A j \in 1..Len(segs[i]) : IsWordChar(segs[i][j])

\* the length of the longest prefix of s that \w+(?:\.\w+)* matches, 0 if none
KeyRun(s) ==
    LET lens == {n \in 1..Len(s) : IsKeyToken(SubSeq(s, 1, n))}
    IN  IF lens = {} THEN 0 ELSE CHOOSE n \in lens : \A m \in lens : m <= n

\* `$` without MULTILINE: at the end, or just before a final newline
AtEnd(u) == u = <<>> \/ u = <<"\n">>

\* the first alternative of `words` that s starts with, none as <<>>
FirstPrefix(s, words) ==
    LET hits == {i \in 1..Len(words) : HasPrefix(s, words[i])}
    IN  IF hits = {} THEN NoStr
        ELSE Some(words[CHOOSE i \in hits : \A j \in hits : i <= j])

\* (?:\s+(?P<value>.+))?$ applied to u: the group takes the longest
\* whitespace run that leaves a non-empty run without newline up to `$`
ValueTail(u) ==
    LET rest(w) == Drop(u, w)
        body(w) == IF Len(rest(w)) > 0 /\ rest(w)[Len(rest(w))] = "\n"
                   THEN SubSeq(rest(w), 1, Len(rest(w)) - 1) ELSE rest(w)
        fits == {w \in 1..SpaceRun(u) :
                    Len(body(w)) > 0 /\ \A i \in 1..Len(body(w)) : body(w)[i] # "\n"}
    IN  IF fits # {}
        THEN [ok |-> TRUE, value |-> Some(body(CHOOSE w \in fits : \A x \in fits : x <= w))]
        ELSE [ok |-> AtEnd(u), value |-> NoStr]

\* a help pattern that also answers to /config with the topic list:
\* ^/(?:help|config)(?:\s+(?P<topic>actions|commands|config|all|list))?$
HelpCommand_command_pattern_config_alias(s) ==
    LET head == IF HasPrefix(s, <<"/", "h", "e", "l", "p">>) THEN 5
                ELSE IF HasPrefix(s, <<"/", "c", "o", "n", "f", "i", "g">>) THEN 7 ELSE 0
        r == Drop(s, head)
        arg == Drop(r, SpaceRun(r))
        topic == IF SpaceRun(r) > 0
                 THEN FirstPrefix(arg, <<<<"a", "c", "t", "i", "o", "n", "s">>, <<"c", "o", "m", "m", "a", "n", "d", "s">>, <<"c", "o", "n", "f", "i", "g">>, <<"a", "l", "l">>, <<"l", "i", "s", "t">>>>)
                 ELSE NoStr
    IN  IF head = 0
        THEN [called |-> TRUE, matched |-> FALSE, topic |-> NoStr]
        ELSE IF topic # NoStr /\ AtEnd(Drop(arg, Len(topic[1])))
        THEN [called |-> TRUE, matched |-> TRUE, topic |-> topic]
        ELSE [called |-> TRUE, matched |-> AtEnd(r), topic |-> NoStr]

help_topics == <<<<"a", "c", "t", "i", "o", "n", "s">>, <<"c", "o", "m", "m", "a", "n", "d", "s">>, <<"c", "o", "n", "f", "i", "g">>, <<"a", "l", "l">>>>

\* re.match(HelpCommand.command_pattern, s):
\* ^/help(?:\s+(?P<topic>actions|commands|config|all))?$
HelpCommand_command_pattern(s) ==
    IF ~HasPrefix(s, <<"/", "h", "e", "l", "p">>)
    THEN [called |-> TRUE, matched |-> FALSE, topic |-> NoStr]
    ELSE LET r == Drop(s, 5)
             arg == Drop(r, SpaceRun(r))
             topic == IF SpaceRun(r) > 0 THEN FirstPrefix(arg, help_topics) ELSE NoStr
         IN  IF topic # NoStr /\ AtEnd(Drop(arg, Len(topic[1])))
             THEN [called |-> TRUE, matched |-> TRUE, topic |-> topic]
             ELSE [called |-> TRUE, matched |-> AtEnd(r), topic |-> NoStr]

\* the alternation without reset
config_actions_without_reset == <<<<"g", "e", "t">>, <<"s", "e", "t">>, <<"l", "i", "s", "t">>>>

config_actions == <<<<"g", "e", "t">>, <<"s", "e", "t">>, <<"l", "i", "s", "t">>, <<"r", "e", "s", "e", "t">>>>

\* re.match(ConfigCommand.command_pattern, s):
\* ^/config\s+(?P<action>get|set|list|reset)(?:\s+(?P<key>\w+(?:\.\w+)*))?(?:\s+(?P<value>.+))?$
ConfigCommand_command_pattern(s) ==
    LET none == [called |-> TRUE, matched |-> FALSE, action |-> NoStr,
                 key |-> NoStr, value |-> NoStr]
        r0 == Drop(s, 7)
        r1 == Drop(r0, SpaceRun(r0))
        action == FirstPrefix(r1, config_actions)
    IN  IF ~HasPrefix(s, <<"/", "c", "o", "n", "f", "i", "g">>) \/ SpaceRun(r0) = 0 \/ action = NoStr THEN none
        ELSE LET r == Drop(r1, Len(action[1]))
                 k0 == Drop(r, SpaceRun(r))
                 key == SubSeq(k0, 1, KeyRun(k0))
                 withKey == ValueTail(Drop(k0, KeyRun(k0)))
                 withoutKey == ValueTail(r)
             IN  IF SpaceRun(r) > 0 /\ KeyRun(k0) > 0 /\ withKey.ok
                 THEN [called |-> TRUE, matched |-> TRUE, action |-> action,
                       key |-> Some(key), value |-> withKey.value]
                 ELSE IF withoutKey.ok
                 THEN [called |-> TRUE, matched |-> TRUE, action |-> action,
                       key |-> NoStr, value |-> withoutKey.value]
                 ELSE none

\* HelpCommand.command_examples and ConfigCommand.command_examples
help_command_examples ==
    <<<<"/", "h", "e", "l", "p">>, <<"/", "h", "e", "l", "p", " ", "a", "c", "t", "i", "o", "n", "s">>, <<"/", "h", "e", "l", "p", " ", "c", "o", "m", "m", "a", "n", "d", "s">>, <<"/", "h", "e", "l", "p", " ", "c", "o", "n", "f", "i", "g">>, <<"/", "h", "e", "l", "p", " ", "a", "l", "l">>>>

config_command_examples ==
    <<<<"/", "c", "o", "n", "f", "i", "g", " ", "l", "i", "s", "t">>, <<"/", "c", "o", "n", "f", "i", "g", " ", "g", "e", "t", " ", "p", "l", "u", "g", "i", "n", ".", "e", "n", "a", "b", "l", "e", "d">>, <<"/", "c", "o", "n", "f", "i", "g", " ", "s", "e", "t", " ", "d", "e", "b", "u", "g", "_", "m", "o", "d", "e", " ", "t", "r", "u", "e">>,
      <<"/", "c", "o", "n", "f", "i", "g", " ", "r", "e", "s", "e", "t", " ", "f", "e", "a", "t", "u", "r", "e", "s", ".", "e", "n", "a", "b", "l", "e", "_", "g", "r", "e", "e", "t", "i", "n", "g", "s">>>>

\* the texts of the pattern tests that are not examples
TestTexts ==
    { <<"h", "e", "l", "p">>, <<"/", "h", "e", "l", "p", " ", "i", "n", "v", "a", "l", "i", "d">>, <<"/", "h", "e", "l", "p", " ", "a", "c", "t", "i", "o", "n", "s", " ", "e", "x", "t", "r", "a">>, <<"/", "H", "E", "L", "P">>,
      <<"/", "c", "o", "n", "f", "i", "g", " ", "r", "e", "s", "e", "t", " ", "f", "e", "a", "t", "u", "r", "e", "s", ".", "g", "r", "e", "e", "t", "i", "n", "g", "s">> }

\* the starts of the generated messages
CommandHeads ==
    { <<>>, <<"/", "h", "e", "l", "p">>, <<"/", "h", "e", "l", "p", " ", "a", "l", "l">>, <<"/", "h", "e", "l", "p", " ", "a", "c", "t", "i", "o", "n", "s">>, <<"/", "c", "o", "n", "f", "i", "g">>, <<"/", "c", "o", "n", "f", "i", "g", " ", "l", "i", "s", "t">>,
      <<"/", "c", "o", "n", "f", "i", "g", " ", "s", "e", "t">>, <<"/", "c", "o", "n", "f", "i", "g", " ", "g", "e", "t", " ", "a">>, <<"/", "c", "o", "n", "f", "i", "g", " ", "s", "e", "t", " ", "a", ".", "l">> }

\* a space, a newline, two word characters and the dot
TailAlphabet == {" ", "\n", "a", "l", "."}

Tails == UNION {[1..k -> TailAlphabet] : k \in 0..MaxTailLen}

\* the messages the patterns are applied to
Texts ==
    {h \o t : h \in CommandHeads, t \in Tails}
    \cup Range(help_command_examples) \cup Range(config_command_examples)
    \cup TestTexts

\* re.match(HelpCommand.command_pattern, text)
Match_help_pattern ==
    /\ ~help_match.called
    /\ help_match' = HelpCommand_command_pattern(text)
    /\ UNCHANGED <<config, components, user_id, result, sent, stages, conv,
                   origin, text, config_match, instance, now, historyVars, manifestVars>>

\* re.match(ConfigCommand.command_pattern, text)
Match_config_pattern ==
    /\ ~config_match.called
    /\ config_match' = ConfigCommand_command_pattern(text)
    /\ UNCHANGED <<config, components, user_id, result, sent, stages, conv,
                   origin, text, help_match, instance, now, historyVars, manifestVars>>

InitPatterns ==
    /\ text \in Texts
    /\ help_match = NoHelpMatch
    /\ config_match = NoConfigMatch
    /\ config = ConfigWith(<<>>)
    /\ user_id = NoStr
    /\ components = NotCalled
    /\ result = NoResult
    /\ sent = <<>>
    /\ stages = <<>>
    /\ conv = NoConv
    /\ origin = PyNone
    /\ FeatureIdle
    /\ ManifestIdle

NextPatterns ==
    \/ Match_help_pattern
    \/ Match_config_pattern

SpecPatterns == InitPatterns /\ [][NextPatterns]_vars

\* "/help" alone, or "/help", whitespace and one topic, as the whole string
IsHelpText(s) ==
    \/ s = <<"/", "h", "e", "l", "p">>
    \/ /\ HasPrefix(s, <<"/", "h", "e", "l", "p">>)
       /\ SpaceRun(Drop(s, 5)) > 0
       /\ In(Drop(s, 5 + SpaceRun(Drop(s, 5))), help_topics)

\* C13: the help pattern matches a text exactly when the whole text is
\* "/help" or "/help", whitespace and one topic of {actions, commands, config,
\* all}, and it captures that topic (none for "/help" alone)
C13_HelpWholeString ==
    help_match.called =>
        /\ help_match.matched <=> IsHelpText(text)
        /\ help_match.matched =>
              help_match.topic = IF text = <<"/", "h", "e", "l", "p">> THEN NoStr
                                 ELSE Some(Drop(text, 5 + SpaceRun(Drop(text, 5))))

\* the text is "/config", whitespace, the captured action, then whitespace and
\* the captured key if there is one, then whitespace and the captured value if
\* there is one, up to `$`
BuiltFromGroups(s, m) ==
    LET r0 == Drop(s, 7)
        r1 == Drop(r0, SpaceRun(r0))
        r == Drop(r1, Len(m.action[1]))
        k0 == Drop(r, SpaceRun(r))
        u == IF m.key = NoStr THEN r ELSE Drop(k0, Len(m.key[1]))
    IN  /\ HasPrefix(s, <<"/", "c", "o", "n", "f", "i", "g">>) /\ SpaceRun(r0) > 0
        /\ HasPrefix(r1, m.action[1])
        /\ m.key # NoStr =>
              SpaceRun(r) > 0 /\ HasPrefix(k0, m.key[1]) /\ IsKeyToken(m.key[1])
        /\ IF m.value = NoStr THEN AtEnd(u)
           ELSE \E w \in 1..SpaceRun(u) :
                    Drop(u, w) \in {m.value[1], m.value[1] \o <<"\n">>}

Groups(action, key, value) ==
    [called |-> TRUE, matched |-> TRUE, action |-> action, key |-> key, value |-> value]

\* C14: a text the config pattern matches is "/config <action> [key] [value]"
\* with the action one of get, set, list, reset, and the named groups hold
\* exactly these parts, an absent key or value being null; the texts of the
\* pattern test give the groups the test expects
C14_ConfigGroups ==
    config_match.called =>
        /\ config_match.matched =>
              /\ config_match.action # NoStr
              /\ In(config_match.action[1], config_actions)
              /\ BuiltFromGroups(text, config_match)
        /\ text = <<"/", "c", "o", "n", "f", "i", "g", " ", "s", "e", "t", " ", "d", "e", "b", "u", "g", "_", "m", "o", "d", "e", " ", "t", "r", "u", "e">> =>
              config_match = Groups(Some(<<"s", "e", "t">>), Some(<<"d", "e", "b", "u", "g", "_", "m", "o", "d", "e">>), Some(<<"t", "r", "u", "e">>))
        /\ text = <<"/", "c", "o", "n", "f", "i", "g", " ", "l", "i", "s", "t">> =>
              config_match = Groups(Some(<<"l", "i", "s", "t">>), NoStr, NoStr)
        /\ text = <<"/", "c", "o", "n", "f", "i", "g", " ", "g", "e", "t", " ", "p", "l", "u", "g", "i", "n", ".", "e", "n", "a", "b", "l", "e", "d">> =>
              config_match = Groups(Some(<<"g", "e", "t">>), Some(<<"p", "l", "u", "g", "i", "n", ".", "e", "n", "a", "b", "l", "e", "d">>), NoStr)
        /\ text = <<"/", "c", "o", "n", "f", "i", "g", " ", "r", "e", "s", "e", "t", " ", "f", "e", "a", "t", "u", "r", "e", "s", ".", "g", "r", "e", "e", "t", "i", "n", "g", "s">> =>
              config_match = Groups(Some(<<"r", "e", "s", "e", "t">>), Some(<<"f", "e", "a", "t", "u", "r", "e", "s", ".", "g", "r", "e", "e", "t", "i", "n", "g", "s">>), NoStr)

C14_Witness ==
    /\ text = <<"/", "c", "o", "n", "f", "i", "g", " ", "s", "e", "t", " ", "d", "e", "b", "u", "g", "_", "m", "o", "d", "e", " ", "t", "r", "u", "e">>
    /\ config_match = Groups(Some(<<"s", "e", "t">>), Some(<<"d", "e", "b", "u", "g", "_", "m", "o", "d", "e">>), Some(<<"t", "r", "u", "e">>))

\* C15: every string of HelpCommand.command_examples is matched by the help
\* pattern and every string of ConfigCommand.command_examples by the config
\* pattern
C15_ExamplesMatch ==
    /\ help_match.called /\ In(text, help_command_examples) => help_match.matched
    /\ config_match.called /\ In(text, config_command_examples) => config_match.matched

C15_Witness ==
    /\ text = <<"/", "c", "o", "n", "f", "i", "g", " ", "r", "e", "s", "e", "t", " ", "f", "e", "a", "t", "u", "r", "e", "s", ".", "e", "n", "a", "b", "l", "e", "_", "g", "r", "e", "e", "t", "i", "n", "g", "s">>
    /\ config_match.called
    /\ config_match.matched
    /\ config_match.key = Some(<<"f", "e", "a", "t", "u", "r", "e", "s", ".", "e", "n", "a", "b", "l", "e", "_", "g", "r", "e", "e", "t", "i", "n", "g", "s">>)

\* C16: no text is matched by both the help pattern and the config pattern
C16_MutuallyExclusive ==
    ~(help_match.matched /\ config_match.matched)

C16_Witness ==
    /\ help_match.called
    /\ config_match.called
    /\ config_match.matched
    /\ ~help_match.matched
    /\ text = <<"/", "c", "o", "n", "f", "i", "g", " ", "l", "i", "s", "t">>

---------------------------------------------------------------------------
(* The execute methods of the four components: C17 - C18 *)

\* latest time of the model clock
MaxTime == 3

\* what an execute call did: the returned pair, the texts passed to send_text
\* and the instance after the call
Done(success, msg, texts, inst) ==
    [success |-> success, msg |-> msg, sent |-> texts, instance |-> inst]

\* action_data.get(name, default)
data_get(action_data, name, default) ==
    IF name \in DOMAIN action_data THEN action_data[name] ELSE default

\* the class attributes of a new GreetingAction
NewGreetingAction ==
    [cls |-> "GreetingAction",
     activation_keywords |-> PyList(<<<<"U+4F60", "U+597D">>, <<"h", "e", "l", "l", "o">>, <<"h", "i">>, <<"U+55E8">>>>),
     stored |-> <<>>]

\* SmartResponseAction.__init__ at time t, with the class attributes
NewSmartResponseAction(t) ==
    [cls |-> "SmartResponseAction",
     random_activation_probability |-> PyFloat(1, 1),
     response_cache |-> EmptyCache,
     last_cache_clear |-> t,
     stored |-> <<>>]

NewHelpCommand == [cls |-> "HelpCommand"]
NewConfigCommand == [cls |-> "ConfigCommand"]

\* GreetingAction.execute returning the disabled result only after it has
\* taken the keywords from the configuration
GreetingAction_execute_keywords_first(cfg, inst, action_data) ==
    LET greeting_keywords == get_config(cfg, K_greeting_keywords, NewGreetingAction.activation_keywords)
        updated == [inst EXCEPT !.activation_keywords = greeting_keywords]
    IN  IF ~Truthy(get_config(cfg, K_enable_greetings, PyBool(TRUE)))
        THEN Done(FALSE, "disabled", <<>>, updated)
        ELSE Done(TRUE, "greeted", <<"greeting">>, updated)

\* GreetingAction.execute ignoring features.enable_greetings
GreetingAction_execute_always_enabled(cfg, inst, action_data) ==
    Done(TRUE, "greeted", <<"greeting">>, inst)

\* GreetingAction.execute
GreetingAction_execute(cfg, inst, action_data) ==
    IF ~Truthy(get_config(cfg, K_enable_greetings, PyBool(TRUE)))
    THEN Done(FALSE, "disabled", <<>>, inst)
    ELSE LET greeting_keywords == get_config(cfg, K_greeting_keywords,
                                             NewGreetingAction.activation_keywords)
             enable_emoji == Truthy(get_config(cfg, K_enable_emoji, PyBool(TRUE)))
             debug_mode == Truthy(get_config(cfg, K_debug_mode, PyBool(FALSE)))
             greeting_type == data_get(action_data, "greeting_type", "friendly")
             user_name == data_get(action_data, "user_name", "")
             texts == (IF debug_mode THEN <<"debug">> ELSE <<>>)
                      \o <<"greeting">>
                      \o (IF enable_emoji THEN <<"emoji">> ELSE <<>>)
             info == [action_done |-> TRUE, greeting_type |-> greeting_type,
                      user_mentioned |-> user_name # ""]
         IN  Done(TRUE, "greeted", texts,
                  [inst EXCEPT !.activation_keywords = greeting_keywords,
                               !.stored = Append(@, info)])

\* _cleanup_expired_cache clearing already when the lifetime has just elapsed
_cleanup_expired_cache_at_ttl(cfg, inst, t) ==
    LET cache_ttl == IntOf(get_config(cfg, K_cache_ttl, PyInt(3600)))
    IN  IF t - inst.last_cache_clear >= cache_ttl
        THEN [instance |-> [inst EXCEPT !.response_cache = EmptyCache, !.last_cache_clear = t],
              sent |-> IF Truthy(get_config(cfg, K_debug_mode, PyBool(FALSE)))
                       THEN <<"cache_cleared">> ELSE <<>>]
        ELSE [instance |-> inst, sent |-> <<>>]

\* SmartResponseAction._cleanup_expired_cache at time t: the instance after
\* it and the texts it sent
_cleanup_expired_cache(cfg, inst, t) ==
    LET cache_ttl == IntOf(get_config(cfg, K_cache_ttl, PyInt(3600)))
    IN  IF t - inst.last_cache_clear > cache_ttl
        THEN [instance |-> [inst EXCEPT !.response_cache = EmptyCache, !.last_cache_clear = t],
              sent |-> IF Truthy(get_config(cfg, K_debug_mode, PyBool(FALSE)))
                       THEN <<"cache_cleared">> ELSE <<>>]
        ELSE [instance |-> inst, sent |-> <<>>]

\* response_templates.get(response_type, response_templates["informative"])
response_templates(response_type) ==
    CASE response_type = "supportive" ->
          <<<<"U+6211", "U+7406", "U+89E3", "U+4F60", "U+7684", "U+60F3", "U+6CD5", "U+FF0C", "U+8FD9", "U+786E", "U+5B9E", "U+662F", "U+4E00", "U+4E2A", "U+503C", "U+5F97", "U+8003", "U+8651", "U+7684", "U+95EE", "U+9898", "U+3002">>,
            <<"U+4F60", "U+7684", "U+89C2", "U+70B9", "U+5F88", "U+6709", "U+610F", "U+601D", "U+FF0C", "U+6211", "U+60F3", "U+5206", "U+4EAB", "U+4E00", "U+4E9B", "U+76F8", "U+5173", "U+7684", "U+60F3", "U+6CD5", "U+FF1A">>,
            <<"U+4ECE", "U+53E6", "U+4E00", "U+4E2A", "U+89D2", "U+5EA6", "U+6765", "U+770B", "U+FF0C", "U+4E5F", "U+8BB8", "U+53EF", "U+4EE5", "U+8FD9", "U+6837", "U+8003", "U+8651", "U+FF1A">>>>
      [] response_type = "creative" ->
          <<<<"U+8FD9", "U+6FC0", "U+53D1", "U+4E86", "U+6211", "U+7684", "U+4E00", "U+4E9B", "U+521B", "U+610F", "U+60F3", "U+6CD5", "U+FF1A">>,
            <<"U+4ECE", "U+521B", "U+610F", "U+7684", "U+89D2", "U+5EA6", "U+6765", "U+770B", "U+FF0C", "U+6211", "U+4EEC", "U+53EF", "U+4EE5", "U+8FD9", "U+6837", "U+601D", "U+8003", "U+FF1A">>,
            <<"U+8BA9", "U+6211", "U+5206", "U+4EAB", "U+4E00", "U+4E2A", "U+6709", "U+8DA3", "U+7684", "U+60F3", "U+6CD5", "U+FF1A">>>>
      [] response_type = "analytical" ->
          <<<<"U+4ECE", "U+5206", "U+6790", "U+7684", "U+89D2", "U+5EA6", "U+6765", "U+770B", "U+FF0C", "U+8FD9", "U+4E2A", "U+95EE", "U+9898", "U+6709", "U+51E0", "U+4E2A", "U+7EF4", "U+5EA6", "U+FF1A">>,
            <<"U+8BA9", "U+6211", "U+4EEC", "U+6DF1", "U+5165", "U+5206", "U+6790", "U+4E00", "U+4E0B", "U+8FD9", "U+4E2A", "U+60C5", "U+51B5", "U+FF1A">>,
            <<"U+6570", "U+636E", "U+8868", "U+660E", "U+8FD9", "U+79CD", "U+73B0", "U+8C61", "U+80CC", "U+540E", "U+53EF", "U+80FD", "U+6709", "U+4EE5", "U+4E0B", "U+539F", "U+56E0", "U+FF1A">>>>
      [] OTHER ->
          <<<<"U+5173", "U+4E8E", "U+8FD9", "U+4E2A", "U+8BDD", "U+9898", "U+FF0C", "U+6211", "U+4E86", "U+89E3", "U+5230", "U+4E00", "U+4E9B", "U+6709", "U+8DA3", "U+7684", "U+4FE1", "U+606F", ".", ".", ".">>,
            <<"U+8865", "U+5145", "U+4E00", "U+4E0B", "U+76F8", "U+5173", "U+7684", "U+80CC", "U+666F", "U+77E5", "U+8BC6", "U+FF1A">>,
            <<"U+8FD9", "U+8BA9", "U+6211", "U+60F3", "U+5230", "U+4E86", "U+4E00", "U+4E9B", "U+76F8", "U+5173", "U+7684", "U+5185", "U+5BB9", "U+FF1A">>>>

\* s.replace(old, new) for a one-character old
RECURSIVE Replace(_, _, _)
Replace(s, old, new) ==
    IF s = <<>> THEN <<>>
    ELSE (IF Head(s) = old THEN new ELSE <<Head(s)>>) \o Replace(Tail(s), old, new)

\* s[:n]
Slice(s, n) ==
    IF n >= 0 THEN SubSeq(s, 1, IF n < Len(s) THEN n ELSE Len(s))
    ELSE SubSeq(s, 1, IF Len(s) + n > 0 THEN Len(s) + n ELSE 0)

\* SmartResponseAction._generate_smart_response; `pick` is the template
\* random.choice takes
_generate_smart_response(response_type, context_depth, tone, max_length, include_examples, pick) ==
    LET base == response_templates(response_type)[pick]
        toned == IF tone = "formal"
                 THEN Replace(Replace(base, "U+6211", <<"U+672C", "U+7CFB", "U+7EDF">>), "U+4F60", <<"U+60A8">>)
                 ELSE IF tone = "casual" THEN base \o <<" ", "U+1F60A">>
                 ELSE base
        deepened == IF context_depth = "deep"
                    THEN toned \o <<"\n", "\n", "U+6DF1", "U+5165", "U+6765", "U+770B", "U+FF0C", "U+8FD9", "U+4E2A", "U+8BDD", "U+9898", "U+6D89", "U+53CA", "U+591A", "U+4E2A", "U+5C42", "U+9762", "U+7684", "U+8003", "U+8651", ".", ".", ".">>
                    ELSE IF context_depth = "medium"
                    THEN toned \o <<"\n", "\n", "U+8FD9", "U+5176", "U+4E2D", "U+6709", "U+4E00", "U+4E9B", "U+91CD", "U+8981", "U+7684", "U+8981", "U+70B9", "U+503C", "U+5F97", "U+6CE8", "U+610F", "U+3002">>
                    ELSE toned
    IN  IF Truthy(include_examples) THEN deepened \o <<"\n", "\n", "U+4E3E", "U+4E2A", "U+4F8B", "U+5B50", "U+6765", "U+8BF4", ".", ".", ".">>
        ELSE deepened

\* what SmartResponseAction.execute did: as Done, with the response text it
\* sent, the cache key and the length limit of the call
DoneSmart(success, msg, texts, inst, response, key, max_length) ==
    [success |-> success, msg |-> msg, sent |-> texts, instance |-> inst,
     reply |-> response, call |-> [key |-> key, max_length |-> max_length]]

\* the cache with the response put under the key
Cached(cache, key, response) ==
    [k \in DOMAIN cache \cup {key} |-> IF k = key THEN response ELSE cache[k]]

\* the cache-hit branch of execute emptying the cache it answered from
_cached_reply_clearing(inst, cache_key, debug_mode, max_length, t) ==
    DoneSmart(TRUE, "cached",
              (IF debug_mode THEN <<"debug">> ELSE <<>>)
                 \o <<"cached_response">>
                 \o (IF debug_mode THEN <<"cache_used">> ELSE <<>>),
              [inst EXCEPT !.response_cache = EmptyCache, !.last_cache_clear = t],
              Some(inst.response_cache[cache_key]), cache_key, max_length)

\* the cache-hit branch of execute: the cached text is sent, between the two
\* debug lines in debug mode, and the call returns
_cached_reply(inst, cache_key, debug_mode, max_length, t) ==
    DoneSmart(TRUE, "cached",
              (IF debug_mode THEN <<"debug">> ELSE <<>>)
                 \o <<"cached_response">>
                 \o (IF debug_mode THEN <<"cache_used">> ELSE <<>>),
              inst, Some(inst.response_cache[cache_key]), cache_key, max_length)

\* SmartResponseAction.execute at time t; `slow` says whether the call took
\* more than two seconds, `pick` which template random.choice takes.  A
\* max_length that is a string or None makes the comparison with len() raise,
\* which the except clause turns into the failure result
SmartResponseAction_execute(cfg, inst, action_data, t, slow, pick) ==
    IF ~Truthy(get_config(cfg, K_enable_smart_responses, PyBool(TRUE)))
    THEN DoneSmart(FALSE, "disabled", <<>>, inst, NoStr, NoKey, PyNone)
    ELSE LET response_probability == get_config(cfg, K_response_probability, PyFloat(1, 1))
             max_response_length == get_config(cfg, K_max_response_length, PyInt(200))
             cache_enabled == Truthy(get_config(cfg, K_cache_enabled, PyBool(TRUE)))
             performance_monitor == Truthy(get_config(cfg, K_performance_monitor, PyBool(FALSE)))
             debug_mode == Truthy(get_config(cfg, K_debug_mode, PyBool(FALSE)))
             response_type == data_get(action_data, "response_type", "informative")
             context_depth == data_get(action_data, "context_depth", "medium")
             tone == data_get(action_data, "tone", "friendly")
             max_length == data_get(action_data, "max_length", max_response_length)
             include_examples == data_get(action_data, "include_examples", PyBool(FALSE))
             cache_key == <<response_type, context_depth, tone>>
             inst1 == [inst EXCEPT !.random_activation_probability = response_probability]
             debug == IF debug_mode THEN <<"debug">> ELSE <<>>
         IN  IF cache_enabled /\ cache_key \in DOMAIN inst1.response_cache
             THEN _cached_reply(inst1, cache_key, debug_mode, max_length, t)
             ELSE LET cleaned == IF cache_enabled THEN _cleanup_expired_cache(cfg, inst1, t)
                                 ELSE [instance |-> inst1, sent |-> <<>>]
                      inst2 == cleaned.instance
                      generated == _generate_smart_response(response_type, context_depth, tone,
                                                            max_length, include_examples, pick)
                      smart_response == IF Len(generated) > IntOf(max_length)
                                        THEN Slice(generated, IntOf(max_length)) \o <<".", ".", ".">>
                                        ELSE generated
                      cache == IF cache_enabled
                               THEN Cached(inst2.response_cache, cache_key, smart_response)
                               ELSE inst2.response_cache
                      info == [action_done |-> TRUE, response_type |-> response_type,
                               response_length |-> Len(smart_response),
                               from_cache |-> cache_key \in DOMAIN cache]
                  IN  IF ~IsInstanceInt(max_length)
                      THEN DoneSmart(FALSE, "failed",
                                     debug \o cleaned.sent
                                           \o (IF debug_mode THEN <<"error">> ELSE <<>>),
                                     inst2, NoStr, cache_key, max_length)
                      ELSE DoneSmart(TRUE, "generated",
                                     debug \o cleaned.sent \o <<"smart_response">>
                                           \o (IF performance_monitor /\ slow
                                               THEN <<"performance_warning">> ELSE <<>>),
                                     [inst2 EXCEPT !.response_cache = cache,
                                                   !.stored = Append(@, info)],
                                     Some(smart_response), cache_key, max_length)

\* HelpCommand._show_complete_help: the texts it sends
_show_complete_help ==
    <<"complete_header", "loading", "general_help", "actions_help",
      "commands_help", "config_help", "extra">>

\* HelpCommand.execute for matched_groups {topic}
HelpCommand_execute(cfg, inst, topic) ==
    IF ~Truthy(get_config(cfg, K_enable_help_command, PyBool(TRUE)))
    THEN Done(FALSE, "disabled", <<"disabled">>, inst)
    ELSE LET debug == IF Truthy(get_config(cfg, K_debug_mode, PyBool(FALSE)))
                      THEN <<"debug">> ELSE <<>>
             help == CASE topic = Some(<<"a", "c", "t", "i", "o", "n", "s">>) -> <<"actions_help">>
                       [] topic = Some(<<"c", "o", "m", "m", "a", "n", "d", "s">>) -> <<"commands_help">>
                       [] topic = Some(<<"c", "o", "n", "f", "i", "g">>) -> <<"config_help">>
                       [] topic = Some(<<"a", "l", "l">>) -> _show_complete_help
                       [] OTHER -> <<"general_help">>
         IN  Done(TRUE, "helped", debug \o help, inst)

\* the trees the components run on: every combination of the four feature
\* flags, debug mode and the cache switch, with the values of the action tests
\* for the keywords, the probability and a cache lifetime of one time unit
FeatureConfigs ==
    {Install(Install(Install(ConfigWith(f),
                K_greeting_keywords, PyList(<<<<"U+4F60", "U+597D">>, <<"h", "e", "l", "l", "o">>, <<"h", "i">>>>)),
                K_response_probability, PyFloat(2, 1)),
                K_cache_ttl, PyInt(1)) :
        f \in {g \in [{K_enable_greetings, K_enable_smart_responses, K_enable_help_command,
                       K_enable_config_command, K_debug_mode, K_cache_enabled}
                        -> FlagStates] :
                  g[K_debug_mode] # "absent" /\ g[K_cache_enabled] # "absent"}}

\* action_data of the two actions
GreetingData == {[user_name |-> ""], [greeting_type |-> "formal"]}
SmartData == {[tone |-> "friendly"], [response_type |-> "creative"]}

\* matched_groups of the two commands
HelpTopics == {NoStr} \cup {Some(help_topics[i]) : i \in 1..Len(help_topics)}
ConfigRequests ==
    { <<Some(<<"l", "i", "s", "t">>), NoStr, NoStr>>, <<Some(<<"g", "e", "t">>), Some(K_debug_mode), NoStr>>,
      <<Some(<<"s", "e", "t">>), Some(K_debug_mode), Some(<<"t", "r", "u", "e">>)>>, <<NoStr, NoStr, NoStr>> }

\* the call returned (success, msg)
Returns(out) == [NoResult EXCEPT !.called = TRUE, !.success = out.success, !.msg = out.msg]

\* the host runs GreetingAction.execute
Call_GreetingAction_execute(action_data) ==
    LET out == GreetingAction_execute(config, instance, action_data)
    IN  /\ instance.cls = "GreetingAction"
        /\ ~result.called
        /\ result' = Returns(out)
        /\ sent' = out.sent
        /\ instance' = out.instance
        /\ UNCHANGED <<config, components, user_id, stages, conv, origin, patternVars, now,
                       historyVars, manifestVars>>

\* the host runs SmartResponseAction.execute
Call_SmartResponseAction_execute(action_data, slow, pick) ==
    LET out == SmartResponseAction_execute(config, instance, action_data, now, slow, pick)
    IN  /\ instance.cls = "SmartResponseAction"
        /\ ~result.called
        /\ stages = <<>>
        /\ result' = Returns(out)
        /\ sent' = out.sent
        /\ instance' = out.instance
        /\ reply' = out.reply
        /\ last_call' = out.call
        /\ stored_at' = [k \in DOMAIN out.instance.response_cache |->
                            IF out.msg = "generated" /\ k = out.call.key THEN now
                            ELSE stored_at[k]]
        /\ UNCHANGED <<config, components, user_id, stages, conv, origin, patternVars, now,
                       manifestVars>>

\* _cleanup_expired_cache called on its own, as test_cleanup_expired_cache does
Call_cleanup_expired_cache ==
    LET out == _cleanup_expired_cache(config, instance, now)
    IN  /\ instance.cls = "SmartResponseAction"
        /\ ~result.called
        /\ stages = <<>>
        /\ stages' = <<"_cleanup_expired_cache">>
        /\ sent' = out.sent
        /\ instance' = out.instance
        /\ stored_at' = [k \in DOMAIN out.instance.response_cache |-> stored_at[k]]
        /\ UNCHANGED <<config, components, user_id, result, conv, origin, patternVars, now,
                       reply, last_call, manifestVars>>

\* the host runs HelpCommand.execute
Call_HelpCommand_execute(topic) ==
    LET out == HelpCommand_execute(config, instance, topic)
    IN  /\ instance.cls = "HelpCommand"
        /\ ~result.called
        /\ result' = Returns(out)
        /\ sent' = out.sent
        /\ instance' = out.instance
        /\ UNCHANGED <<config, components, user_id, stages, conv, origin, patternVars, now,
                       historyVars, manifestVars>>

\* the host runs ConfigCommand.execute
Call_ConfigCommand_execute(action, key, value) ==
    /\ instance.cls = "ConfigCommand"
    /\ Call_execute(action, key, value)

\* the host calls execute of the same instance once more; what the last call
\* sent and stored is counted anew
Call_again ==
    /\ result.called \/ stages # <<>>
    /\ result' = NoResult
    /\ reply' = NoStr
    /\ last_call' = NoCall
    /\ sent' = <<>>
    /\ stages' = <<>>
    /\ instance' = IF instance.cls \in {"GreetingAction", "SmartResponseAction"}
                   THEN [instance EXCEPT !.stored = <<>>] ELSE instance
    /\ UNCHANGED <<config, components, user_id, conv, origin, patternVars, now,
                   stored_at, manifestVars>>

\* time passes
Tick ==
    /\ now < MaxTime
    /\ now' = now + 1
    /\ UNCHANGED <<config, components, user_id, result, sent, stages, conv,
                   origin, patternVars, instance, historyVars, manifestVars>>

InitFeatures ==
    /\ config \in FeatureConfigs
    /\ user_id \in Users
    /\ now = 0
    /\ \/ instance = NewGreetingAction
       \/ instance = NewSmartResponseAction(0)
       \/ instance = NewHelpCommand
       \/ instance = NewConfigCommand
    /\ components = NotCalled
    /\ result = NoResult
    /\ sent = <<>>
    /\ stages = <<>>
    /\ conv = NoConv
    /\ origin = PyNone
    /\ HistoryIdle
    /\ PatternIdle
    /\ ManifestIdle

NextFeatures ==
    \/ \E d \in GreetingData : Call_GreetingAction_execute(d)
    \/ \E d \in SmartData, slow \in BOOLEAN : Call_SmartResponseAction_execute(d, slow, 1)
    \/ \E topic \in HelpTopics : Call_HelpCommand_execute(topic)
    \/ \E r \in ConfigRequests : Call_ConfigCommand_execute(r[1], r[2], r[3])
    \/ Call_again
    \/ Tick

SpecFeatures == InitFeatures /\ [][NextFeatures]_vars

\* the feature flag of each component
FlagOf(cls) ==
    CASE cls = "GreetingAction" -> K_enable_greetings
      [] cls = "SmartResponseAction" -> K_enable_smart_responses
      [] cls = "HelpCommand" -> K_enable_help_command
      [] cls = "ConfigCommand" -> K_enable_config_command

\* the flag of the instance's component is set to false
FlagIsFalse ==
    /\ FlagOf(instance.cls) \in DOMAIN config
    /\ config[FlagOf(instance.cls)] = PyBool(FALSE)

\* C17: execute of a component whose feature flag is false returns
\* (False, the disabled message), whatever the action data, the matched
\* groups and the rest of the configuration
C17_DisabledReturnsFailure ==
    result.called /\ FlagIsFalse => ~result.success /\ result.msg = "disabled"

C17_Witness ==
    /\ result.called
    /\ FlagIsFalse
    /\ instance.cls = "SmartResponseAction"
    /\ Truthy(config[K_debug_mode])
    /\ result.msg = "disabled"

\* an execute call is taking place while the flag of the component is false
DisabledCall == FlagIsFalse /\ ~result.called /\ result'.called

\* C18 as stated: execute of a disabled component sends nothing, stores no
\* action info and changes no state of the component
C18_DisabledSilent ==
    [][DisabledCall => sent' = <<>> /\ instance' = instance /\ config' = config]_vars

\* C18: execute of a disabled action sends nothing and execute of a disabled
\* command sends exactly the one notice that the command is disabled; none
\* stores action info or changes the instance or the configuration
C18_DisabledEffects ==
    [][DisabledCall =>
          /\ sent' = IF instance.cls \in {"HelpCommand", "ConfigCommand"}
                     THEN <<"disabled">> ELSE <<>>
          /\ instance' = instance
          /\ config' = config]_vars

C18_Witness ==
    /\ result.called
    /\ FlagIsFalse
    /\ instance.cls = "HelpCommand"
    /\ ~result.success
    /\ sent = <<"disabled">>

---------------------------------------------------------------------------
(* Errors of the configuration command: C19 *)

\* the last call returned (False, message) after sending the text of `kind`
\* as its last text
Reported(kind) ==
    /\ ~result.success
    /\ result.msg = kind
    /\ sent # <<>>
    /\ sent[Len(sent)] = kind

\* the value a set converts its argument to
ConvertedBySet ==
    _convert_config_value(result.value[1],
                          get_config(config, result.key[1], PyNone).t)

\* C19: a missing key, a missing value, an invalid key, a read-only key, a
\* conversion failure and a validation failure each end the call with the
\* matching error text sent to the user and the result (False, message); the
\* ValueError of the conversion is caught in the handler
C19_ErrorsReported ==
    LET requested(a) == HandlerRan(a)
        get == <<"g", "e", "t">>
        set == <<"s", "e", "t">>
        reset == <<"r", "e", "s", "e", "t">>
        keyed == requested(get) \/ requested(set) \/ requested(reset)
        complete == /\ keyed
                    /\ ~Missing(result.key)
                    /\ requested(set) => result.value # NoStr
        settable == /\ requested(set)
                    /\ complete
                    /\ _validate_config_key(result.key[1])
                    /\ ~In(result.key[1], readonly_keys)
    IN  /\ keyed /\ Missing(result.key) => Reported("missing_key")
        /\ requested(set) /\ ~Missing(result.key) /\ result.value = NoStr =>
              Reported("missing_value")
        /\ complete /\ ~ _validate_config_key(result.key[1]) => Reported("invalid_key")
        /\ requested(set) /\ complete /\ _validate_config_key(result.key[1])
              /\ In(result.key[1], readonly_keys) => Reported("readonly")
        /\ settable /\ ~ConvertedBySet.ok => Reported("conversion_failed")
        /\ settable /\ ConvertedBySet.ok
              /\ ~ _validate_config_value(result.key[1], ConvertedBySet.val) =>
              Reported("validation_failed")
        /\ result.called /\ ~result.success => sent # <<>>

C19_Witness ==
    /\ HandlerRan(<<"s", "e", "t">>)
    /\ result.key = Some(K_debug_mode)
    /\ result.value = Some(<<"m", "a", "y", "b", "e">>)
    /\ Reported("conversion_failed")

---------------------------------------------------------------------------
(* scripts/validate_manifest.py: C20 *)

\* most fields of the reference manifest replaced at once
MaxDefects == 2

\* dict.get(name, default)
dict_get(d, name, default) == IF name \in DOMAIN d.v THEN d.v[name] ELSE default

\* the progress of validate: the two lists, and whether a check raised
AddError(st, e) == [st EXCEPT !.errors = Append(@, e)]
AddWarning(st, w) == [st EXCEPT !.warnings = Append(@, w)]
Raise(st) == [st EXCEPT !.raised = TRUE]

\* x == 3 for a JSON value: the int 3 or the float 3.0
Equals3(x) ==
    \/ x.t = "int" /\ x.v = 3
    \/ x.t = "float" /\ x.kind = "finite" /\ x.num = 3 * Pow10(x.exp)

\* s without one final newline, which `$` tolerates under re.match
BeforeDollar(s) ==
    IF Len(s) > 0 /\ s[Len(s)] = "\n" THEN SubSeq(s, 1, Len(s) - 1) ELSE s

\* re.match(r'^\d+\.\d+\.\d+$', s)
IsVersion(s) ==
    LET parts == SplitOn(BeforeDollar(s), ".")
    IN  /\ Len(parts) = 3
        /\ \A i \in 1..3 :
              Len(parts[i]) > 0 /\ \A j \in 1..Len(parts[i]) : IsDigit(parts[i][j])

\* re.match(r'^[a-z]{2}(-[A-Z]{2})?$', s)
IsLocale(s) ==
    LET b == BeforeDollar(s)
        lower(c) == c \in Range(LowerChars)
        upper(c) == c \in Range(UpperChars)
    IN  \/ Len(b) = 2 /\ lower(b[1]) /\ lower(b[2])
        \/ Len(b) = 5 /\ lower(b[1]) /\ lower(b[2]) /\ b[3] = "-"
              /\ upper(b[4]) /\ upper(b[5])

IsAlnum(c) == IsAlpha(c) \/ IsDigit(c)

\* (?:[A-Z0-9](?:[A-Z0-9-]{0,61}[A-Z0-9])?\.)+[A-Z]{2,6} over the whole of h,
\* letter case ignored
IsDomain(h) ==
    LET parts == SplitOn(h, ".")
        n == Len(parts)
    IN  /\ n >= 2
        /\ Len(parts[n]) \in 2..6
        /\ \A j \in 1..Len(parts[n]) : IsAlpha(parts[n][j])
        /\ \A i \in 1..(n - 1) :
              /\ Len(parts[i]) \in 1..63
              /\ IsAlnum(parts[i][1])
              /\ IsAlnum(parts[i][Len(parts[i])])
              /\ \A j \in 1..Len(parts[i]) : IsAlnum(parts[i][j]) \/ parts[i][j] = "-"

\* \d{1,3}\.\d{1,3}\.\d{1,3}\.\d{1,3} over the whole of h
IsIPv4(h) ==
    LET parts == SplitOn(h, ".")
    IN  /\ Len(parts) = 4
        /\ \A i \in 1..4 :
              Len(parts[i]) \in 1..3 /\ \A j \in 1..Len(parts[i]) : IsDigit(parts[i][j])

\* the host alternatives of the URL pattern over the whole of h
IsHost(h) ==
    \/ IsDomain(h)
    \/ Len(h) > 0 /\ h[Len(h)] = "." /\ IsDomain(SubSeq(h, 1, Len(h) - 1))
    \/ StrLower(h) = <<"l", "o", "c", "a", "l", "h", "o", "s", "t">>
    \/ IsIPv4(h)

\* (?::\d+)? over the whole of p
IsPort(p) ==
    \/ p = <<>>
    \/ Len(p) >= 2 /\ p[1] = ":" /\ \A j \in 2..Len(p) : IsDigit(p[j])

\* (?:/?|[/?]\S+)$ over the whole of p
IsPathToEnd(p) ==
    LET b == BeforeDollar(p)
    IN  \/ p \in {<<>>, <<"/">>, <<"\n">>, <<"/", "\n">>}
        \/ Len(b) >= 2 /\ b[1] \in {"/", "?"} /\ \A j \in 2..Len(b) : ~IsSpace(b[j])

\* the length of the longest prefix of s whose characters all satisfy the
\* class: a host character [A-Z0-9.-] (IGNORECASE), or a digit
InClass(c, class) ==
    IF class = "host" THEN IsAlnum(c) \/ c \in {"-", "."} ELSE IsDigit(c)

RunLen(s, class) ==
    CHOOSE n \in 0..Len(s) :
        /\ \A i \in 1..n : InClass(s[i], class)
        /\ n = Len(s) \/ ~InClass(s[n + 1], class)

\* ManifestValidator._is_valid_url: the host is followed by a colon, a slash,
\* a question mark or the end, none of which a host contains, so it is the
\* longest run of host characters; the port likewise
_is_valid_url(url) ==
    LET low == StrLower(url)
        start == IF HasPrefix(low, <<"h", "t", "t", "p", "s", ":", "/", "/">>) THEN 8
                 ELSE IF HasPrefix(low, <<"h", "t", "t", "p", ":", "/", "/">>) THEN 7 ELSE 0
        r == Drop(url, start)
        i == RunLen(r, "host")
        afterHost == Drop(r, i)
        j == IF Len(afterHost) > 0 /\ afterHost[1] = ":"
             THEN 1 + RunLen(Tail(afterHost), "digit") ELSE 0
    IN  /\ start > 0
        /\ IsHost(SubSeq(r, 1, i))
        /\ \/ IsPort(SubSeq(afterHost, 1, j)) /\ IsPathToEnd(Drop(afterHost, j))
           \/ IsPathToEnd(afterHost)

\* ManifestValidator._validate_manifest_version
_validate_manifest_version(m, st) ==
    IF Equals3(dict_get(m, "manifest_version", PyNone)) THEN st
    ELSE AddError(st, "manifest_version")

\* the loop body of _validate_basic_info for one required field
RequiredField(m, st, field) ==
    LET value == dict_get(m, field, PyNone)
    IN  IF ~Truthy(value) \/ value.t # "str" THEN AddError(st, field \o "_missing")
        ELSE IF Strip(value.v) = <<>> THEN AddError(st, field \o "_empty")
        ELSE st

\* ManifestValidator._validate_basic_info; re.match raises TypeError for a
\* version that is not a string
_validate_basic_info(m, st) ==
    LET st3 == RequiredField(m, RequiredField(m, RequiredField(m, st, "name"),
                                              "version"), "description")
        version == dict_get(m, "version", PyStr(<<>>))
    IN  IF version.t # "str" THEN Raise(st3)
        ELSE IF ~IsVersion(version.v) THEN AddError(st3, "version_format")
        ELSE st3

\* `if url and not self._is_valid_url(url)` followed by a warning;
\* pattern.match raises TypeError for a truthy url that is not a string
UrlField(url, st, w) ==
    IF ~Truthy(url) THEN st
    ELSE IF url.t # "str" THEN Raise(st)
    ELSE IF ~ _is_valid_url(url.v) THEN AddWarning(st, w)
    ELSE st

\* ManifestValidator._validate_author
_validate_author(m, st) ==
    LET author == dict_get(m, "author", PyNone)
    IN  IF ~Truthy(author) \/ author.t # "dict" THEN AddError(st, "author")
        ELSE LET st1 == IF ~Truthy(dict_get(author, "name", PyNone))
                        THEN AddError(st, "author_name") ELSE st
             IN  UrlField(dict_get(author, "url", PyNone), st1, "author_url")

\* ManifestValidator._validate_urls
_validate_urls(m, st) ==
    LET st1 == UrlField(dict_get(m, "homepage_url", PyNone), st, "homepage_url")
    IN  IF st1.raised THEN st1
        ELSE UrlField(dict_get(m, "repository_url", PyNone), st1, "repository_url")

\* the field as a required one: absent, it is not a list
ListField_required(m, st, field) ==
    LET value == dict_get(m, field, PyNone)
    IN  IF value.t # "list" THEN AddError(st, field)
        ELSE IF Len(value.v) = 0 THEN AddWarning(st, "no_" \o field)
        ELSE st

\* one of the two fields of _validate_keywords_categories
ListField(m, st, field) ==
    LET value == dict_get(m, field, PyList(<<>>))
    IN  IF value.t # "list" THEN AddError(st, field)
        ELSE IF Len(value.v) = 0 THEN AddWarning(st, "no_" \o field)
        ELSE st

\* ManifestValidator._validate_keywords_categories
_validate_keywords_categories(m, st) ==
    ListField(m, ListField(m, st, "keywords"), "categories")

\* `if v and not re.match(version pattern, v)` followed by an error
VersionBound(v, st, e) ==
    IF ~Truthy(v) THEN st
    ELSE IF v.t # "str" THEN Raise(st)
    ELSE IF ~IsVersion(v.v) THEN AddError(st, e)
    ELSE st

\* ManifestValidator._validate_host_application
_validate_host_application(m, st) ==
    LET host_app == dict_get(m, "host_application", PyNone)
    IN  IF ~Truthy(host_app) \/ host_app.t # "dict"
        THEN AddWarning(st, "no_host_application")
        ELSE LET st1 == VersionBound(dict_get(host_app, "min_version", PyNone), st,
                                     "min_version")
             IN  IF st1.raised THEN st1
                 ELSE VersionBound(dict_get(host_app, "max_version", PyNone), st1,
                                   "max_version")

\* ManifestValidator._validate_locales; `exists` is os.path.exists of the
\* locales directory
_validate_locales(m, st, exists) ==
    LET default_locale == dict_get(m, "default_locale", PyNone)
        locales_path == dict_get(m, "locales_path", PyNone)
        st1 == IF ~Truthy(default_locale) THEN st
               ELSE IF default_locale.t # "str" THEN Raise(st)
               ELSE IF ~IsLocale(default_locale.v) THEN AddWarning(st, "default_locale")
               ELSE st
    IN  IF st1.raised \/ ~Truthy(locales_path) THEN st1
        ELSE IF locales_path.t # "str" THEN Raise(st1)
        ELSE IF ~exists THEN AddWarning(st1, "locales_path")
        ELSE st1

\* the loop of _validate_components from component i on
RECURSIVE ComponentsFrom(_, _, _)
ComponentsFrom(comps, i, st) ==
    IF i > Len(comps) THEN st
    ELSE LET component == comps[i]
             comp_type == dict_get(component, "type", PyNone)
             comp_name == dict_get(component, "name", PyNone)
             comp_desc == dict_get(component, "description", PyNone)
             st1 == IF comp_type \in {PyStr(<<"a", "c", "t", "i", "o", "n">>), PyStr(<<"c", "o", "m", "m", "a", "n", "d">>), PyStr(<<"t", "o", "o", "l">>)}
                    THEN st ELSE AddError(st, "component_type")
             st2 == IF ~Truthy(comp_name) \/ comp_name.t # "str"
                    THEN AddError(st1, "component_name") ELSE st1
             st3 == IF ~Truthy(comp_desc) \/ comp_desc.t # "str"
                    THEN AddWarning(st2, "component_description") ELSE st2
         IN  IF component.t # "dict"
             THEN ComponentsFrom(comps, i + 1, AddError(st, "component_not_object"))
             ELSE ComponentsFrom(comps, i + 1, st3)

\* ManifestValidator._validate_components
_validate_components(comps, st) ==
    ComponentsFrom(comps, 1,
                   IF Len(comps) = 0 THEN AddWarning(st, "no_components") ELSE st)

valid_types ==
    {<<"g", "e", "n", "e", "r", "a", "l">>, <<"g", "a", "m", "e">>, <<"u", "t", "i", "l", "i", "t", "y">>, <<"e", "n", "t", "e", "r", "t", "a", "i", "n", "m", "e", "n", "t">>, <<"s", "o", "c", "i", "a", "l">>, <<"p", "r", "o", "d", "u", "c", "t", "i", "v", "i", "t", "y">>}

\* ManifestValidator._validate_plugin_info
_validate_plugin_info(m, st) ==
    LET plugin_info == dict_get(m, "plugin_info", PyNone)
    IN  IF ~Truthy(plugin_info) \/ plugin_info.t # "dict" THEN AddError(st, "plugin_info")
        ELSE LET is_built_in == dict_get(plugin_info, "is_built_in", PyNone)
                 plugin_type == dict_get(plugin_info, "plugin_type", PyNone)
                 comps == dict_get(plugin_info, "components", PyList(<<>>))
                 st1 == IF is_built_in.t # "bool" THEN AddError(st, "is_built_in") ELSE st
                 st2 == IF plugin_type.t = "str" /\ plugin_type.v \in valid_types THEN st1
                        ELSE AddWarning(st1, "plugin_type")
             IN  IF comps.t # "list" THEN AddError(st2, "components")
                 ELSE _validate_components(comps.v, st2)

\* the verdict of validate taking the warnings for errors
Verdict_counting_warnings(st) ==
    ~st.raised /\ Len(st.errors) = 0 /\ Len(st.warnings) = 0

\* return len(self.errors) == 0, reached when no check raised
Verdict(st) == ~st.raised /\ Len(st.errors) = 0

\* the i-th of the checks validate calls, in the order of its calls
Check(i, m, st, exists) ==
    CASE i = 1 -> _validate_manifest_version(m, st)
      [] i = 2 -> _validate_basic_info(m, st)
      [] i = 3 -> _validate_author(m, st)
      [] i = 4 -> _validate_urls(m, st)
      [] i = 5 -> _validate_keywords_categories(m, st)
      [] i = 6 -> _validate_host_application(m, st)
      [] i = 7 -> _validate_locales(m, st, exists)
      [] OTHER -> _validate_plugin_info(m, st)

\* the calls from the i-th on; none is made once an earlier one has raised
RECURSIVE ChecksFrom(_, _, _, _)
ChecksFrom(i, m, st, exists) ==
    IF i > 8 \/ st.raised THEN st
    ELSE ChecksFrom(i + 1, m, Check(i, m, st, exists), exists)

\* ManifestValidator.validate on the validator v: a missing or malformed file
\* is an error; a document that is not an object makes the first .get raise
validate(file, v) ==
    IF file.state # "json"
    THEN [AddError(v, "unreadable") EXCEPT !.called = TRUE, !.returned = FALSE]
    ELSE IF file.doc.t # "dict"
    THEN [Raise(v) EXCEPT !.called = TRUE]
    ELSE LET st == ChecksFrom(1, file.doc, v, file.locales_exist)
         IN  [st EXCEPT !.called = TRUE, !.returned = Verdict(st)]

\* main(): the exit status and the validator it used; an exception that
\* leaves validate ends the interpreter with status 1
main(file) ==
    IF file.state = "missing" THEN [exit |-> 1, validator |-> NewValidator]
    ELSE LET v == validate(file, NewValidator)
         IN  [exit |-> IF ~v.raised /\ v.returned THEN 0 ELSE 1, validator |-> v]

\* a manifest that passes every check without a warning
ReferenceManifest ==
    [manifest_version |-> PyInt(3),
     name |-> PyStr(<<"T", "e", "m", "p", "l", "a", "t", "e", " ", "P", "l", "u", "g", "i", "n">>),
     version |-> PyStr(<<"1", ".", "0", ".", "0">>),
     description |-> PyStr(<<"A", " ", "p", "l", "u", "g", "i", "n", " ", "t", "e", "m", "p", "l", "a", "t", "e">>),
     author |-> PyDict([name |-> PyStr(<<"M", "a", "i", "B", "o", "t">>), url |-> PyStr(<<"h", "t", "t", "p", "s", ":", "/", "/", "g", "i", "t", "h", "u", "b", ".", "c", "o", "m", "/", "M", "a", "i", "M", "-", "w", "i", "t", "h", "-", "u">>)]),
     homepage_url |-> PyStr(<<"h", "t", "t", "p", "s", ":", "/", "/", "e", "x", "a", "m", "p", "l", "e", ".", "c", "o", "m", "/">>),
     keywords |-> PyList(<<PyStr(<<"t", "e", "m", "p", "l", "a", "t", "e">>)>>),
     categories |-> PyList(<<PyStr(<<"u", "t", "i", "l", "i", "t", "y">>)>>),
     host_application |-> PyDict([min_version |-> PyStr(<<"0", ".", "8", ".", "0">>)]),
     default_locale |-> PyStr(<<"z", "h", "-", "C", "N">>),
     plugin_info |->
        PyDict([is_built_in |-> PyBool(FALSE),
                plugin_type |-> PyStr(<<"g", "e", "n", "e", "r", "a", "l">>),
                components |-> PyList(<<PyDict([type |-> PyStr(<<"a", "c", "t", "i", "o", "n">>),
                                               name |-> PyStr(<<"g", "r", "e", "e", "t", "i", "n", "g", "_", "a", "c", "t", "i", "o", "n">>),
                                               description |-> PyStr(<<"g", "r", "e", "e", "t", "s">>)])>>)])]

\* a manifest with the fields the validator insists on and no other
MinimalManifest ==
    [manifest_version |-> PyInt(3),
     name |-> PyStr(<<"T", "e", "m", "p", "l", "a", "t", "e">>),
     version |-> PyStr(<<"0", ".", "1", ".", "0">>),
     description |-> PyStr(<<"d", "e", "m", "o">>),
     author |-> PyDict([name |-> PyStr(<<"M", "a", "i", "B", "o", "t">>)]),
     plugin_info |-> PyDict([is_built_in |-> PyBool(FALSE)])]

Absent(field) == [field |-> field, absent |-> TRUE, value |-> PyNone]
Given(field, value) == [field |-> field, absent |-> FALSE, value |-> value]

\* the ways one field of a manifest departs from the reference
Defects ==
    << Absent("manifest_version"), Given("manifest_version", PyInt(2)),
       Given("manifest_version", PyFloat(3, 0)), Given("manifest_version", PyStr(<<"3">>)),
       Absent("name"), Given("name", PyStr(<<>>)), Given("name", PyStr(<<" ", " ">>)),
       Given("name", PyInt(5)),
       Absent("version"), Given("version", PyStr(<<"1", ".", "0">>)),
       Given("version", PyStr(<<"1", ".", "0", ".", "0", "\n">>)), Given("version", PyInt(1)),
       Absent("description"),
       Absent("author"), Given("author", PyStr(<<"M", "a", "i", "B", "o", "t">>)),
       Given("author", PyDict([url |-> PyStr(<<"h", "t", "t", "p", "s", ":", "/", "/", "e", "x", "a", "m", "p", "l", "e", ".", "c", "o", "m">>)])),
       Given("author", PyDict([name |-> PyStr(<<"M", "a", "i", "B", "o", "t">>), url |-> PyStr(<<"e", "x", "a", "m", "p", "l", "e">>)])),
       Given("author", PyDict([name |-> PyStr(<<"M", "a", "i", "B", "o", "t">>), url |-> PyInt(5)])),
       Absent("homepage_url"), Given("homepage_url", PyStr(<<"f", "t", "p", ":", "/", "/", "e", "x", "a", "m", "p", "l", "e", ".", "c", "o", "m">>)),
       Given("repository_url", PyStr(<<"h", "t", "t", "p", ":", "/", "/", "l", "o", "c", "a", "l", "h", "o", "s", "t", ":", "8", "0", "8", "0", "/", "x">>)),
       Given("repository_url", PyInt(5)),
       Absent("keywords"), Given("keywords", PyStr(<<"t", "e", "m", "p", "l", "a", "t", "e">>)),
       Given("categories", PyList(<<>>)), Given("categories", PyDict([a |-> PyInt(1)])),
       Absent("host_application"),
       Given("host_application", PyDict([min_version |-> PyStr(<<"0", ".", "8">>)])),
       Given("host_application", PyDict([min_version |-> PyInt(1)])),
       Given("host_application", PyDict([max_version |-> PyStr(<<"l", "a", "t", "e", "s", "t">>)])),
       Given("default_locale", PyStr(<<"c", "h", "i", "n", "e", "s", "e">>)), Given("default_locale", PyInt(1)),
       Given("locales_path", PyStr(<<"l", "o", "c", "a", "l", "e", "s">>)), Given("locales_path", PyInt(1)),
       Absent("plugin_info"),
       Given("plugin_info", PyDict([plugin_type |-> PyStr(<<"o", "t", "h", "e", "r">>)])),
       Given("plugin_info", PyDict([is_built_in |-> PyBool(TRUE),
                                    plugin_type |-> PyStr(<<"g", "a", "m", "e">>),
                                    components |-> PyList(<<>>)])),
       Given("plugin_info", PyDict([is_built_in |-> PyBool(FALSE),
                                    plugin_type |-> PyStr(<<"g", "e", "n", "e", "r", "a", "l">>),
                                    components |-> PyStr(<<"n", "o", "n", "e">>)])),
       Given("plugin_info", PyDict([is_built_in |-> PyBool(FALSE),
                                    plugin_type |-> PyStr(<<"g", "e", "n", "e", "r", "a", "l">>),
                                    components |-> PyList(<<PyStr(<<"x">>),
                                        PyDict([type |-> PyStr(<<"p", "l", "u", "g", "i", "n">>)]),
                                        PyDict([type |-> PyStr(<<"t", "o", "o", "l">>),
                                                name |-> PyStr(<<"t">>)])>>)])) >>

\* the manifest with the defects of the index set S applied in order
RECURSIVE WithDefects(_, _, _)
WithDefects(m, S, i) ==
    IF i > Len(Defects) THEN m
    ELSE IF i \notin S THEN WithDefects(m, S, i + 1)
    ELSE LET d == Defects[i]
         IN  WithDefects(IF d.absent THEN [k \in DOMAIN m \ {d.field} |-> m[k]]
                         ELSE [k \in DOMAIN m \cup {d.field} |->
                                  IF k = d.field THEN d.value ELSE m[k]],
                         S, i + 1)

\* the sets of at most n defects
RECURSIVE DefectSetsUpTo(_)
DefectSetsUpTo(n) ==
    IF n = 0 THEN {{}}
    ELSE LET smaller == DefectSetsUpTo(n - 1)
         IN  smaller \cup {S \cup {i} : S \in smaller, i \in 1..Len(Defects)}

DefectSets == DefectSetsUpTo(MaxDefects)

\* the validator is used directly, as a test or another script would
Call_validate ==
    /\ ~validator.called
    /\ exit_code = Running
    /\ validator' = validate(manifest_file, validator)
    /\ UNCHANGED <<config, components, user_id, result, sent, stages, conv,
                   origin, patternVars, instance, now, historyVars, manifest_file,
                   exit_code>>

\* python scripts/validate_manifest.py
Call_main ==
    /\ ~validator.called
    /\ exit_code = Running
    /\ LET out == main(manifest_file)
       IN  validator' = out.validator /\ exit_code' = out.exit
    /\ UNCHANGED <<config, components, user_id, result, sent, stages, conv,
                   origin, patternVars, instance, now, historyVars, manifest_file>>

InitManifest ==
    /\ \/ manifest_file \in {[state |-> s] : s \in {"missing", "malformed"}}
       \/ \E S \in DefectSets, e \in BOOLEAN :
             manifest_file = [state |-> "json", locales_exist |-> e,
                              doc |-> PyDict(WithDefects(ReferenceManifest, S, 1))]
       \/ \E S \in DefectSets, e \in BOOLEAN :
             manifest_file = [state |-> "json", locales_exist |-> e,
                              doc |-> PyDict(WithDefects(MinimalManifest, S, 1))]
       \/ manifest_file = [state |-> "json", locales_exist |-> FALSE, doc |-> PyList(<<>>)]
       \/ manifest_file = [state |-> "json", locales_exist |-> FALSE, doc |-> PyNone]
       \/ manifest_file = [state |-> "json", locales_exist |-> FALSE, doc |-> PyStr(<<"m", "a", "n", "i", "f", "e", "s", "t">>)]
    /\ validator = NewValidator
    /\ exit_code = Running
    /\ config = ConfigWith(<<>>)
    /\ user_id = NoStr
    /\ components = NotCalled
    /\ result = NoResult
    /\ sent = <<>>
    /\ stages = <<>>
    /\ conv = NoConv
    /\ origin = PyNone
    /\ PatternIdle
    /\ FeatureIdle

NextManifest ==
    \/ Call_validate
    \/ Call_main

SpecManifest == InitManifest /\ [][NextManifest]_vars

\* C20: validate returns True exactly when the error list is empty after all
\* checks, and the script exits with 0 exactly then and with 1 otherwise; the
\* warning list takes no part in either
C20_ValidIffNoErrors ==
    /\ validator.called /\ ~validator.raised =>
          (validator.returned <=> validator.errors = <<>>)
    /\ exit_code # Running =>
          /\ exit_code \in {0, 1}
          /\ exit_code = 0 <=>
                validator.called /\ ~validator.raised /\ validator.errors = <<>>

C20_Witness ==
    /\ exit_code = 0
    /\ validator.called
    /\ validator.returned
    /\ validator.errors = <<>>
    /\ Len(validator.warnings) >= 2

\* the fields the specification calls required, as it words them
NonEmptyStr(x) == x.t = "str" /\ Strip(x.v) # <<>>

IsXYZ(x) ==
    /\ x.t = "str"
    /\ LET parts == SplitOn(x.v, ".")
       IN  Len(parts) = 3 /\ \A i \in 1..3 : parts[i] # <<>> /\ \A j \in 1..Len(parts[i]) : IsDigit(parts[i][j])

HasRequiredFields(doc) ==
    /\ doc.t = "dict"
    /\ {"manifest_version", "name", "version", "description", "author"} \subseteq DOMAIN doc.v
    /\ doc.v.manifest_version = PyInt(3)
    /\ NonEmptyStr(doc.v.name)
    /\ IsXYZ(doc.v.version)
    /\ NonEmptyStr(doc.v.description)
    /\ doc.v.author.t = "dict"
    /\ "name" \in DOMAIN doc.v.author.v
    /\ NonEmptyStr(doc.v.author.v.name)

\* keywords, categories, host_application and plugin_info.components are absent
NoOptionalFields(doc) ==
    /\ DOMAIN doc.v \cap {"keywords", "categories", "host_application"} = {}
    /\ "plugin_info" \in DOMAIN doc.v /\ doc.v.plugin_info.t = "dict"
          => "components" \notin DOMAIN doc.v.plugin_info.v

HasPluginInfo(doc) ==
    /\ "plugin_info" \in DOMAIN doc.v
    /\ doc.v.plugin_info.t = "dict"
    /\ "is_built_in" \in DOMAIN doc.v.plugin_info.v
    /\ doc.v.plugin_info.v.is_built_in.t = "bool"

\* every further field is a string
OtherFieldsAreStrings(doc) ==
    /\ \A f \in DOMAIN doc.v \cap {"homepage_url", "repository_url", "default_locale", "locales_path"} :
          doc.v[f].t = "str"
    /\ "url" \in DOMAIN doc.v.author.v => doc.v.author.v.url.t = "str"

Validated == manifest_file.state = "json" /\ validator.called

---------------------------------------------------------------------------
(* The response cache of SmartResponseAction: C23 - C25, C27 - C28 *)

\* the trees the action runs on: the cache and debug mode on or off, a
\* cache lifetime of one time unit, and the default or a small length limit
CacheConfigs ==
    {Install(Install(ConfigWith(f), K_cache_ttl, PyInt(1)), K_max_response_length, PyInt(n)) :
        f \in [{K_cache_enabled, K_debug_mode} -> {"true", "false"}], n \in {200, 20}}

\* action_data of the calls: the defaults, the same key with a limit of its
\* own, another key, and a limit given as text
CacheData ==
    {[tone |-> "friendly"],
     [max_length |-> PyInt(10)],
     [tone |-> "formal", include_examples |-> PyBool(TRUE)],
     [max_length |-> PyStr(<<"5", "0">>)]}

\* the templates random.choice chooses from
Picks == {1, 2, 3}

InitCache ==
    /\ config \in CacheConfigs
    /\ user_id = NoStr
    /\ now = 0
    /\ instance = NewSmartResponseAction(0)
    /\ components = NotCalled
    /\ result = NoResult
    /\ sent = <<>>
    /\ stages = <<>>
    /\ conv = NoConv
    /\ origin = PyNone
    /\ HistoryIdle
    /\ PatternIdle
    /\ ManifestIdle

NextCache ==
    \/ \E d \in CacheData, slow \in BOOLEAN, pick \in Picks :
          Call_SmartResponseAction_execute(d, slow, pick)
    \/ Call_cleanup_expired_cache
    \/ Call_again
    \/ Tick

SpecCache == InitCache /\ [][NextCache]_vars

\* the cache lifetime and the cache switch of the running configuration
CacheTtl == IntOf(get_config(config, K_cache_ttl, PyInt(3600)))
CacheEnabled == Truthy(get_config(config, K_cache_enabled, PyBool(TRUE)))

\* C23: the response text of a successful execute call is at most
\* max_length + 3 characters long, max_length being the limit of that call
\* (action_data max_length, else actions.max_response_length)
C23_LengthLimit ==
    result.called /\ result.success /\ reply # NoStr /\ IsInstanceInt(last_call.max_length)
        => Len(reply[1]) <= IntOf(last_call.max_length) + 3

\* an execute call is taking place that finds its key in the cache, with the
\* cache enabled
CacheHitCall ==
    /\ instance.cls = "SmartResponseAction"
    /\ ~result.called /\ result'.called
    /\ Truthy(get_config(config, K_enable_smart_responses, PyBool(TRUE)))
    /\ CacheEnabled
    /\ last_call'.key \in DOMAIN instance.response_cache

\* what a cache hit leaves alone: nothing is stored through store_action_info,
\* and the cache and the time of its last clearing stay as they are
HitFrame ==
    /\ result'.success /\ result'.msg = "cached"
    /\ reply' = Some(instance.response_cache[last_call'.key])
    /\ instance'.stored = instance.stored
    /\ instance'.response_cache = instance.response_cache
    /\ instance'.last_cache_clear = instance.last_cache_clear

\* C24 as stated: on a cache hit execute sends exactly the cached text and
\* returns the cached-reply success, generating nothing, storing no action
\* info and leaving the cache and the last-clear time unchanged
C24_CacheHit ==
    [][CacheHitCall => sent' = <<"cached_response">> /\ HitFrame]_vars

\* C24 amended: on a cache hit execute sends the cached text, in debug mode
\* between the debug line and the cache notice, and returns the cached-reply
\* success, generating nothing, storing no action info and leaving the cache
\* and the last-clear time unchanged
C24_CacheHitDebug ==
    [][CacheHitCall =>
          /\ sent' = IF Truthy(get_config(config, K_debug_mode, PyBool(FALSE)))
                     THEN <<"debug", "cached_response", "cache_used">>
                     ELSE <<"cached_response">>
          /\ HitFrame]_vars

C24_Witness ==
    /\ result.called
    /\ result.msg = "cached"
    /\ sent = <<"debug", "cached_response", "cache_used">>
    /\ reply = Some(instance.response_cache[last_call.key])
    /\ now - instance.last_cache_clear > CacheTtl

\* _cleanup_expired_cache is being called on its own
CleanupCall == stages = <<>> /\ stages' = <<"_cleanup_expired_cache">>

\* C25: _cleanup_expired_cache empties the cache and sets the last-clear time
\* to the current time exactly when the current time minus the last-clear time
\* is strictly greater than advanced.cache_ttl; otherwise both stay as they are
C25_CleanupIffExpired ==
    [][CleanupCall =>
          IF now - instance.last_cache_clear > CacheTtl
          THEN /\ instance'.response_cache = EmptyCache
               /\ instance'.last_cache_clear = now
          ELSE /\ instance'.response_cache = instance.response_cache
               /\ instance'.last_cache_clear = instance.last_cache_clear]_vars

C25_Witness ==
    /\ stages = <<"_cleanup_expired_cache">>
    /\ sent = <<"cache_cleared">>
    /\ instance.response_cache = EmptyCache
    /\ instance.last_cache_clear = now
    /\ now >= 2

\* C27: with the cache enabled, the response a call takes from the cache was
\* stored at most advanced.cache_ttl before the call
C27_NoStaleResponse ==
    [][CacheHitCall /\ result'.msg = "cached"
          => now - stored_at[last_call'.key] <= CacheTtl]_vars

\* C28: the action info of a freshly generated response records from_cache as
\* false
C28_FreshNotFromCache ==
    result.called /\ result.msg = "generated"
        => Len(instance.stored) = 1 /\ ~instance.stored[1].from_cache

---------------------------------------------------------------------------
(* Keyword activation, actions/sample_action.py: C22 *)

\* longest input text built from the alphabet
MaxInputLen == 3

\* keyword in user_input
IsSubstring(keyword, user_input) ==
    \E i \in 0..(Len(user_input) - Len(keyword)) :
        SubSeq(user_input, i + 1, i + Len(keyword)) = keyword

\* SampleAction.can_execute for context {"user_input": user_input}
can_execute(inst, user_input) ==
    \E n \in 1..Len(inst.activation_keywords.v) :
        IsSubstring(inst.activation_keywords.v[n], user_input)

\* a SampleAction with its class attribute
NewSampleAction ==
    [cls |-> "SampleAction",
     activation_keywords |-> PyList(<<<<"U+793A", "U+4F8B">>, <<"U+6A21", "U+677F">>, <<"U+6D4B", "U+8BD5">>>>)]

\* the keyword lists: of SampleAction, of GreetingAction, and of the scenario
KeywordLists ==
    <<NewSampleAction.activation_keywords,
      NewGreetingAction.activation_keywords,
      PyList(<<<<"U+4F60", "U+597D">>, <<"h", "i">>>>)>>

\* the input texts: the two of the scenario, some greetings, and every text of
\* at most MaxInputLen characters over a small alphabet
InputAlphabet == {"h", "i", "H", "I", " "}
RECURSIVE InputsUpTo(_)
InputsUpTo(n) ==
    IF n = 0 THEN {<<>>}
    ELSE LET shorter == InputsUpTo(n - 1)
         IN  shorter \cup {Append(s, c) : s \in shorter, c \in InputAlphabet}
UserInputs ==
    InputsUpTo(MaxInputLen)
        \cup {<<"H", "I", " ", "t", "h", "e", "r", "e">>, <<"H", "o", "l", "a">>, <<"h", "i", " ", "t", "h", "e", "r", "e">>, <<"U+4F60", "U+597D", "U+5417">>, <<"U+8FD9", "U+662F", "U+4E00", "U+4E2A", "U+6D4B", "U+8BD5">>, <<"H", "e", "l", "l", "o">>}

\* the host asks the action whether it can run on the message
Call_can_execute ==
    /\ instance.cls = "SampleAction"
    /\ ~result.called
    /\ result' = [NoResult EXCEPT !.called = TRUE,
                                  !.success = can_execute(instance, text),
                                  !.msg = "can_execute"]
    /\ UNCHANGED <<config, components, user_id, sent, stages, conv, origin, patternVars,
                   instance, now, historyVars, manifestVars>>

\* the next message arrives
Next_message ==
    /\ instance.cls = "SampleAction"
    /\ result.called
    /\ result' = NoResult
    /\ text' \in UserInputs
    /\ UNCHANGED <<config, components, user_id, sent, stages, conv, origin, help_match,
                   config_match, instance, now, historyVars, manifestVars>>

InitKeywords ==
    /\ \E n \in 1..Len(KeywordLists) :
          instance = [NewSampleAction EXCEPT !.activation_keywords = KeywordLists[n]]
    /\ text \in UserInputs
    /\ help_match = NoHelpMatch
    /\ config_match = NoConfigMatch
    /\ now = 0
    /\ config = ConfigWith(<<>>)
    /\ user_id = NoStr
    /\ components = NotCalled
    /\ result = NoResult
    /\ sent = <<>>
    /\ stages = <<>>
    /\ conv = NoConv
    /\ origin = PyNone
    /\ HistoryIdle
    /\ ManifestIdle

NextKeywords ==
    \/ Call_can_execute
    \/ Next_message

SpecKeywords == InitKeywords /\ [][NextKeywords]_vars

---------------------------------------------------------------------------
(* Permission of the configuration command: C26 *)

\* the user ids the command accepts as administrators
AdminIds == {<<"a", "d", "m", "i", "n">>, <<"o", "w", "n", "e", "r">>, <<"d", "e", "v", "e", "l", "o", "p", "e", "r">>, <<"d", "e", "m", "o", "_", "a", "d", "m", "i", "n">>}

IsAdminUser == user_id # NoStr /\ user_id[1] \in AdminIds

\* features.enable_config_command is true, and commands.config_admin_only is
\* true or absent
AdminOnlyCommand ==
    /\ K_enable_config_command \in DOMAIN config
    /\ config[K_enable_config_command] = PyBool(TRUE)
    /\ K_config_admin_only \in DOMAIN config => config[K_config_admin_only] = PyBool(TRUE)

---------------------------------------------------------------------------
(* Reset of the configuration command: C29 *)

\* C29: after a reset of a valid key k returned success, get(k) returns the
\* schema default of k; and a reset reports success only for a key whose
\* default is known
C29_ResetThenGet ==
    HandlerRan(<<"r", "e", "s", "e", "t">>) /\ result.success =>
        /\ result.key[1] \in SchemaKeys
        /\ get_config(config, result.key[1], PyNone) = SchemaDefault(result.key[1])

---------------------------------------------------------------------------
(* Robustness of the manifest validator: C30 *)

\* C30: validate raises for no readable JSON manifest, whatever the JSON type
\* of the document and of its fields: it returns a boolean, and every defect
\* is in the errors or the warnings
C30_NeverRaises ==
    manifest_file.state = "json" /\ validator.called =>
        /\ ~validator.raised
        /\ validator.returned <=> validator.errors = <<>>

====
